---- MODULE Spec2Model ----
(***************************************************************************)
(* Catalog import / storage-migration pipeline of the Spotfly repository. *)
(*                                                                         *)
(* Strings are sequences of one-character strings, so that length,        *)
(* emptiness, startsWith and concatenation are computed as JavaScript     *)
(* computes them.  An optional field of a record (originalAudioUrl) is a  *)
(* field that is in the record's DOMAIN or not.                           *)
(***************************************************************************)
EXTENDS Integers, Sequences, FiniteSets, TLC

VARIABLES
    fn, arg, ret,           \* a pure function under check: its name, input, result
    pc,                     \* position of the importer's main()
    dryRun,                 \* process.env.DRY_RUN === '1'
    results,                \* what Promise.allSettled([fetchJamendo(db)]) settled to
    allTracks, allStats,    \* main(): the valid records, the per-source stats
    ids, dedupI, existing,  \* batchCheckExisting: argument, loop index, result set
    lookups,                \* every db.getAll call issued, in order (its id list)
    newTracks,              \* main(): the records kept after dedup (mutated in place)
    upI, tasks,             \* upload loop index; the media tasks of the current chunk
    uploaded, kept,         \* main(): counters of the upload phase
    mediaResults,           \* what uploadTrackMedia returned, by index of the track
    bucket,                 \* the object store: path -> stored object
    wI, commits,            \* batchWriteTracks: loop index; progress lines logged
    catalog,                \* the tracks collection: document id -> document
    catalog0,               \* the catalog as it was when the run started
    exitCode,               \* process exit status: {} while the process runs, then {code}
    ioError,                \* the store call that rejected, "none" if none did
    limitCount, startAfter, \* migration main(): LIMIT parsed, START_AFTER
    query,                  \* the document the page query starts after, {} if none
    docs, mI,               \* the page being processed, index of the current chunk
    processed, stats,       \* documents processed so far; the MigrationStats
    lastDocId, hasMore,     \* migration main(): locals of the page loop
    scanned,                \* the ids of the documents the pass has scanned, in order
    updates,                \* every doc.ref.update call issued, in order
    hasDb,                  \* a source adapter was given db
    stateDoc,               \* the cursor document import-state/internet-archive: {} or {data}
    stateLoad,              \* how the adapter's load of the cursor document ended
    state,                  \* fetchInternetArchive: the cursor it runs with
    queryI,                 \* fetchInternetArchive: q, index of the query loop
    itemsToProcess, item,   \* the items of the current search; index of the current one
    pageI,                  \* fetchJamendo: page, index of the page loop
    srcTracks, srcErrors,   \* a source adapter's locals tracks and errors
    seen,                   \* fetchInternetArchive: the ids pushed so far
    requests,               \* every HTTP request a source adapter issued, in order
    stateWrites,            \* every set of the cursor document issued, in order
    clientId,               \* fetchJamendo: process.env.JAMENDO_CLIENT_ID is set
    listings,               \* every listing a source adapter received, in order
    pastRequests,           \* the searches the earlier runs of the adapter issued
    runsLeft                \* the further runs of the adapter the scenario holds

vars == <<fn, arg, ret, pc, dryRun, results, allTracks, allStats, ids, dedupI,
          existing, lookups, newTracks, upI, tasks, uploaded, kept,
          mediaResults, bucket,
          wI, commits, catalog, catalog0, exitCode, ioError,
          limitCount, startAfter, query, docs, mI, processed, stats, lastDocId,
          hasMore, scanned, updates,
          hasDb, stateDoc, stateLoad, state, queryI, itemsToProcess, item, pageI,
          srcTracks, srcErrors, seen, requests, stateWrites, clientId, listings,
          pastRequests, runsLeft>>

pureVars == <<fn, arg, ret>>
mainVars == <<pc, dryRun, results, allTracks, allStats, newTracks, exitCode,
             ioError>>
dedupVars == <<ids, dedupI, existing, lookups>>
uploadVars == <<upI, tasks, uploaded, kept, mediaResults, bucket>>
writeVars == <<wI, commits, catalog, catalog0>>
migVars == <<limitCount, startAfter, query, docs, mI, processed, stats, lastDocId,
             hasMore, scanned, updates>>

adapterVars == <<hasDb, stateDoc, stateLoad, state, queryI, itemsToProcess, item, pageI,
                 srcTracks, srcErrors, seen, requests, stateWrites, clientId, listings,
                 pastRequests, runsLeft>>

\* fetchInternetArchive, line 75: the cursor a run starts from
InitialCursor == [queryIndex |-> [kind |-> "number", n |-> 0],
                  sortIndex |-> [kind |-> "number", n |-> 0],
                  pageOffset |-> [kind |-> "number", n |-> 0],
                  lastRun |-> ""]

\* no source adapter is running
AdapterIdle ==
    /\ hasDb = FALSE /\ stateDoc = {} /\ stateLoad = "none" /\ state = InitialCursor
    /\ queryI = 0 /\ itemsToProcess = <<>> /\ item = 0 /\ pageI = 0
    /\ srcTracks = <<>> /\ srcErrors = <<>> /\ seen = {} /\ requests = <<>>
    /\ stateWrites = <<>>
    /\ clientId = FALSE /\ listings = <<>>
    /\ pastRequests = {} /\ runsLeft = 0

\* migration main, lines 199-205
NoStats == [total |-> 0, migrated |-> 0, skipped |-> 0, failed |-> 0,
            failedIds |-> <<>>]

\* the migration script is not running
MigIdle ==
    /\ limitCount = [kind |-> "Infinity"] /\ startAfter = <<>> /\ query = {}
    /\ docs = <<>> /\ mI = 0 /\ processed = 0 /\ stats = NoStats
    /\ lastDocId = <<>> /\ hasMore = TRUE /\ scanned = <<>> /\ updates = <<>>

----------------------------------------------------------------------------
(* Bounds of the model *)

MaxIdLen == 130        \* longest id given to validateTrack
MaxUrlLen == 5         \* longest audioUrl given to validateTrack
MaxHarvest == 4        \* most records a source returns in an import run
MaxIds == 201          \* longest id list given to batchCheckExisting
MaxWrite == 1001       \* longest track list given to batchWriteTracks

----------------------------------------------------------------------------
(* Strings *)

Min(a, b) == IF a < b THEN a ELSE b

\* String.prototype.startsWith
startsWith(s, prefix) ==
    /\ Len(s) >= Len(prefix)
    /\ SubSeq(s, 1, Len(prefix)) = prefix

\* JavaScript's !s for a string s: only the empty string is falsy
Falsy(s) == s = <<>>

sliceInclusive(a, from, to) == SubSeq(a, from + 1, Min(to + 1, Len(a)))

\* Array.prototype.slice(from, to) on a 0-based array held as a 1-based sequence
slice(a, from, to) == SubSeq(a, from + 1, Min(to, Len(a)))

HTTP == <<"h", "t", "t", "p">>

\* a string of n characters
Repeat(c, n) == [i \in 1..n |-> c]

----------------------------------------------------------------------------
(* utils.ts *)

validateTrackOffByOne(track) ==
    IF Falsy(track.id) \/ Len(track.id) >= 128 THEN FALSE
    ELSE IF Falsy(track.audioUrl) \/ ~startsWith(track.audioUrl, HTTP) THEN FALSE
    ELSE IF Falsy(track.title) THEN FALSE
    ELSE TRUE

validateTrack(track) ==
    IF Falsy(track.id) \/ Len(track.id) > 128 THEN FALSE
    ELSE IF Falsy(track.audioUrl) \/ ~startsWith(track.audioUrl, HTTP) THEN FALSE
    ELSE IF Falsy(track.title) THEN FALSE
    ELSE TRUE

----------------------------------------------------------------------------
(* storage.ts: uploadTrackMedia, one task per call.  Every await of the   *)
(* call chain uploadTrackMedia -> transferToStorage -> downloadToBuffer / *)
(* uploadToStorage is one step of the task.                               *)

Null == [null |-> TRUE]

AUDIO_DIR == <<"s", "p", "o", "t", "f", "l", "y", "-", "a", "u", "d", "i", "o", "/">>
ARTWORK_DIR == <<"s", "p", "o", "t", "f", "l", "y", "-", "a", "r", "t", "w", "o", "r", "k", "/">>
MP3 == <<".", "m", "p", "3">>
JPG == <<".", "j", "p", "g">>
\* 'https://firebasestorage.googleapis.com/v0/b/${STORAGE_BUCKET}/o/', abridged
STORAGE_URL == <<"h", "t", "t", "p", "s", ":", "/", "/", "f", "i", "r", "e", "b", "a", "s", "e", "s", "t", "o", "r", "a", "g", "e", "/", "o", "/">>
ALT_MEDIA == <<"?", "a", "l", "t", "=", "m", "e", "d", "i", "a", "&", "t", "o", "k", "e", "n", "=">>
\* the values randomUUID() is drawn from
Tokens == {<<"u", "1">>}

audioPath(trackId) == AUDIO_DIR \o trackId \o MP3
artworkPath(trackId) == ARTWORK_DIR \o trackId \o JPG

\* encodeURIComponent, on the characters a storage path holds
RECURSIVE encodeURIComponent(_)
encodeURIComponent(s) ==
    IF s = <<>> THEN <<>>
    ELSE (IF Head(s) = "/" THEN <<"%", "2", "F">> ELSE <<Head(s)>>)
         \o encodeURIComponent(Tail(s))

\* the URL uploadToStorage returns
downloadUrl(storagePath, token) ==
    STORAGE_URL \o encodeURIComponent(storagePath) \o ALT_MEDIA \o token

\* the task uploadTrackMedia(bucket, trackId, audioUrl, artworkUrl) starts as:
\* it runs synchronously into downloadToBuffer's fetch of the audio
NewTask(caller, trackId, audioUrl, artworkUrl) ==
    [caller |-> caller, trackId |-> trackId, audioUrl |-> audioUrl,
     artworkUrl |-> artworkUrl, pc |-> "audioFetch", timer |-> "armed",
     attempts |-> {"audioDownload"}, events |-> {}, newAudioUrl |-> <<>>,
     result |-> Null]

\* the tasks whose uploadTrackMedia call has started and not yet returned
TransferPcs == {"audioFetch", "audioBody", "audioSave", "artFetch", "artBody", "artSave"}
InFlight == {k \in DOMAIN tasks : tasks[k].pc \in TransferPcs}

\* how an awaited fetch(url, {signal}) can end; "timeout" is the abort timer firing
FetchOutcomes == {"ok", "http-error", "network-error", "timeout"}
\* how response.arrayBuffer() and file.save() can end
IoOutcomes == {"ok", "error"}

\* uploadTrackMedia returns res
returned(t, res) == [t EXCEPT !.pc = "returned", !.result = res]

afterAudioTransferNoReturn(t, newAudioUrl) ==
    LET t2 == [t EXCEPT !.newAudioUrl =
                  IF newAudioUrl = {} THEN <<>> ELSE CHOOSE u \in newAudioUrl : TRUE]
    IN IF ~Falsy(t.artworkUrl)
       THEN [t2 EXCEPT !.pc = "artFetch", !.timer = "armed",
                       !.attempts = @ \cup {"artDownload"}]
       ELSE returned(t2, [audioUrl |-> t2.newAudioUrl, artwork |-> t.artworkUrl,
                          originalAudioUrl |-> t.audioUrl,
                          originalArtwork |-> t.artworkUrl])

\* uploadTrackMedia, lines 106-133: resumed with the result of the audio transfer,
\* a set holding the new URL, or empty for null
afterAudioTransfer(t, newAudioUrl) ==
    IF newAudioUrl = {} THEN returned(t, Null)
    ELSE LET url == CHOOSE u \in newAudioUrl : TRUE
             t2 == [t EXCEPT !.newAudioUrl = url]
         IN IF ~Falsy(t.artworkUrl)
            THEN [t2 EXCEPT !.pc = "artFetch", !.timer = "armed",
                            !.attempts = @ \cup {"artDownload"}]
            ELSE returned(t2, [audioUrl |-> url, artwork |-> t.artworkUrl,
                               originalAudioUrl |-> t.audioUrl,
                               originalArtwork |-> t.artworkUrl])

afterArtworkTransferStrict(t, artResult) ==
    IF artResult = {} THEN returned(t, Null)
    ELSE returned(t, [audioUrl |-> t.newAudioUrl,
                      artwork |-> CHOOSE u \in artResult : TRUE,
                      originalAudioUrl |-> t.audioUrl,
                      originalArtwork |-> t.artworkUrl])

\* uploadTrackMedia, lines 121-133: resumed with the result of the artwork transfer
afterArtworkTransfer(t, artResult) ==
    LET newArtworkUrl == IF artResult # {} THEN CHOOSE u \in artResult : TRUE
                         ELSE t.artworkUrl
    IN returned(t, [audioUrl |-> t.newAudioUrl, artwork |-> newArtworkUrl,
                    originalAudioUrl |-> t.audioUrl,
                    originalArtwork |-> t.artworkUrl])

\* transferToStorage returns r to uploadTrackMedia
afterTransfer(t, phase, r) ==
    IF phase = "audio" THEN afterAudioTransfer(t, r) ELSE afterArtworkTransfer(t, r)

\* downloadToBuffer, lines 15-21, resumed when the awaited fetch ends
AfterFetch(t, phase, o) ==
    CASE o = "ok" ->
           [task |-> [t EXCEPT !.pc = phase \o "Body", !.timer = "cleared"], put |-> {}]
      [] o = "http-error" ->
           [task |-> afterTransfer([t EXCEPT !.timer = "cleared"], phase, {}), put |-> {}]
      [] o = "network-error" ->
           [task |-> afterTransfer(t, phase, {}), put |-> {}]
      [] o = "timeout" ->
           [task |-> afterTransfer([t EXCEPT !.timer = "fired"], phase, {}), put |-> {}]

\* downloadToBuffer, lines 23-32, resumed when the awaited arrayBuffer ends, and
\* on success transferToStorage up to uploadToStorage's await of file.save
AfterBody(t, phase, o) ==
    IF o = "ok"
    THEN [task |-> [t EXCEPT !.pc = phase \o "Save",
                             !.attempts = @ \cup {phase \o "Upload"}],
          put |-> {}]
    ELSE [task |-> afterTransfer(t, phase, {}), put |-> {}]

\* uploadToStorage, lines 45-55, resumed when the awaited file.save ends, and
\* transferToStorage's catch
AfterSave(t, phase, o, token) ==
    LET storagePath == IF phase = "audio" THEN audioPath(t.trackId)
                       ELSE artworkPath(t.trackId)
        sourceUrl == IF phase = "audio" THEN t.audioUrl ELSE t.artworkUrl
        contentType == IF phase = "audio" THEN "audio/mpeg" ELSE "image/jpeg"
    IN IF o = "ok"
       THEN [task |-> afterTransfer(t, phase, {downloadUrl(storagePath, token)}),
             put |-> {[path |-> storagePath,
                       object |-> [data |-> sourceUrl, contentType |-> contentType,
                                   token |-> token]]}]
       ELSE [task |-> afterTransfer(t, phase, {}), put |-> {}]

\* the task with the way its awaited call ended added to its events
noted(t, o) == [t EXCEPT !.events = @ \cup {<<t.pc, o>>}]

\* the ways the fetch a task awaits can end: the timer aborts it only while armed
fetchOutcomes(t) == {o \in FetchOutcomes : o = "timeout" => t.timer = "armed"}

\* every step a task can take next: [task |-> the task after it, put |-> the
\* objects it saved]
TaskSteps(t) ==
    CASE t.pc = "audioFetch" ->
           {AfterFetch(noted(t, o), "audio", o) : o \in fetchOutcomes(t)}
      [] t.pc = "audioBody" ->
           {AfterBody(noted(t, o), "audio", o) : o \in IoOutcomes}
      [] t.pc = "audioSave" ->
           {AfterSave(noted(t, o[1]), "audio", o[1], o[2]) : o \in IoOutcomes \X Tokens}
      [] t.pc = "artFetch" ->
           {AfterFetch(noted(t, o), "art", o) : o \in fetchOutcomes(t)}
      [] t.pc = "artBody" ->
           {AfterBody(noted(t, o), "art", o) : o \in IoOutcomes}
      [] t.pc = "artSave" ->
           {AfterSave(noted(t, o[1]), "art", o[1], o[2]) : o \in IoOutcomes \X Tokens}
      [] OTHER -> {}

\* file.save: the object store after the objects of puts are saved
Saved(b, puts) ==
    LET paths == {p.path : p \in puts}
    IN [q \in DOMAIN b \cup paths |->
          IF q \in paths THEN (CHOOSE p \in puts : p.path = q).object ELSE b[q]]

----------------------------------------------------------------------------
(* index.ts (the importer): main, batchCheckExisting, batchWriteTracks *)

BATCH_SIZE == 500
UPLOAD_CONCURRENCY == 3
CHUNK == 100

SOURCE == <<"j", "a", "m", "e", "n", "d", "o">>
UNKNOWN == <<"u", "n", "k", "n", "o", "w", "n">>
\* sourcePrefixMap[source] || source
sourcePrefix(source) == IF source = SOURCE THEN SOURCE \o <<"-">> ELSE source

EmptyMap == [q \in {} |-> {}]

filterValidKeepsAll(tracks) == tracks

\* sr.tracks.filter(validateTrack)
filterValid(tracks) == SelectSeq(tracks, validateTrack)

\* tracks.filter(t => t.id.startsWith(prefix)).length
countWithPrefix(tracks, prefix) ==
    Cardinality({i \in 1..Len(tracks) : startsWith(tracks[i].id, prefix)})

collectTracksFirstOnly(rs) ==
    IF rs # <<>> /\ Head(rs).status = "fulfilled"
    THEN filterValid(Head(rs).value.tracks)
    ELSE <<>>

\* main, lines 25-54: the valid tracks of every fulfilled source, in order
RECURSIVE collectTracks(_)
collectTracks(rs) ==
    IF rs = <<>> THEN <<>>
    ELSE (IF Head(rs).status = "fulfilled" THEN filterValid(Head(rs).value.tracks)
          ELSE <<>>) \o collectTracks(Tail(rs))

\* main, lines 37-52: one stats entry per settled source
statsEntry(r) ==
    IF r.status = "fulfilled"
    THEN [source |-> r.value.sourceName, fetched |-> Len(r.value.tracks),
          newTracks |-> 0, skippedDuplicates |-> 0, errors |-> Len(r.value.errors)]
    ELSE [source |-> UNKNOWN, fetched |-> 0, newTracks |-> 0,
          skippedDuplicates |-> 0, errors |-> 1]

\* main, lines 22-62: Promise.allSettled has settled; collect, then call
\* batchCheckExisting, which runs to its first db.getAll
MainCollect ==
    /\ pc = "fetch"
    /\ allTracks' = collectTracks(results)
    /\ allStats' = [i \in 1..Len(results) |-> statsEntry(results[i])]
    /\ ids' = [i \in 1..Len(allTracks') |-> allTracks'[i].id]
    /\ existing' = {}
    /\ dedupI' = 0
    /\ pc' = "dedup"
    /\ UNCHANGED <<migVars, adapterVars>>
    /\ UNCHANGED <<pureVars, dryRun, results, newTracks, exitCode, ioError, lookups,
                   uploadVars, writeVars>>

existingOfNegated(chunk) ==
    {chunk[j] : j \in {x \in 1..Len(chunk) : chunk[x] \notin DOMAIN catalog}}

\* the ids of chunk that snapshot.exists holds for
existingOf(chunk) == {chunk[j] : j \in {x \in 1..Len(chunk) : chunk[x] \in DOMAIN catalog}}

\* batchCheckExisting, lines 148-158: one pass of the loop, db.getAll answered
DedupChunk ==
    /\ pc \in {"dedup", "dedupCall"}
    /\ dedupI < Len(ids)
    /\ LET chunk == slice(ids, dedupI, dedupI + CHUNK)
       IN /\ lookups' = Append(lookups, chunk)
          /\ existing' = existing \cup existingOf(chunk)
    /\ dedupI' = dedupI + CHUNK
    /\ UNCHANGED <<migVars, adapterVars>>
    /\ UNCHANGED <<pureVars, mainVars, ids, uploadVars, writeVars>>

\* batchCheckExisting, line 151: db.getAll rejects; nothing catches it before
\* main().catch, lines 187-190
DedupFail ==
    /\ pc = "dedup"
    /\ dedupI < Len(ids)
    /\ lookups' = Append(lookups, slice(ids, dedupI, dedupI + CHUNK))
    /\ pc' = "fatal"
    /\ exitCode' = {1}
    /\ ioError' = "getAll"
    /\ UNCHANGED <<migVars, adapterVars>>
    /\ UNCHANGED <<pureVars, dryRun, results, allTracks, allStats, newTracks,
                   ids, dedupI, existing, uploadVars, writeVars>>

\* main, lines 74-80
updatedStats(entries, all, new) ==
    [i \in 1..Len(entries) |->
        LET prefix == sourcePrefix(entries[i].source)
        IN [entries[i] EXCEPT
              !.newTracks = countWithPrefix(new, prefix),
              !.skippedDuplicates =
                  countWithPrefix(all, prefix) - countWithPrefix(new, prefix)]]

chunkTasksWider(tracks, i) ==
    [k \in (i + 1)..Min(i + UPLOAD_CONCURRENCY + 1, Len(tracks)) |->
        NewTask("main", tracks[k].id, tracks[k].audioUrl, tracks[k].artwork)]

\* main, lines 92-100: the tasks of the chunk that starts at index i
chunkTasks(tracks, i) ==
    [k \in (i + 1)..Min(i + UPLOAD_CONCURRENCY, Len(tracks)) |->
        NewTask("main", tracks[k].id, tracks[k].audioUrl, tracks[k].artwork)]

\* main, lines 64-92: batchCheckExisting has returned; filter, update the
\* stats, and start the first chunk of uploads if there is one
DedupReturn ==
    /\ pc = "dedup"
    /\ dedupI >= Len(ids)
    /\ newTracks' = SelectSeq(allTracks, LAMBDA t : t.id \notin existing)
    /\ allStats' = updatedStats(allStats, allTracks, newTracks')
    /\ IF Len(newTracks') > 0 /\ ~dryRun
       THEN /\ pc' = "upload"
            /\ upI' = 0
            /\ uploaded' = 0
            /\ kept' = 0
            /\ tasks' = chunkTasks(newTracks', 0)
       ELSE /\ pc' = "write"
            /\ UNCHANGED <<upI, tasks, uploaded, kept>>
    /\ UNCHANGED <<migVars, adapterVars>>
    /\ UNCHANGED <<pureVars, dryRun, results, allTracks, exitCode, ioError, dedupVars,
                   mediaResults, bucket, writeVars>>

trackAfterUploadUnchecked(track, result) ==
    IF result # Null
    THEN [originalAudioUrl |-> result.originalAudioUrl,
          originalArtwork |-> result.originalArtwork,
          audioUrl |-> result.audioUrl,
          artwork |-> result.artwork] @@ track
    ELSE [track EXCEPT !.audioUrl = <<>>, !.artwork = <<>>]

trackAfterUploadUrlOnly(track, result) ==
    IF result # Null
    THEN [audioUrl |-> result.audioUrl, artwork |-> result.artwork] @@ track
    ELSE track

\* main, lines 101-110: the closure resumes with uploadTrackMedia's result
trackAfterUpload(track, result) ==
    IF result # Null
    THEN [originalAudioUrl |-> result.originalAudioUrl,
          originalArtwork |-> result.originalArtwork,
          audioUrl |-> result.audioUrl,
          artwork |-> result.artwork] @@ track
    ELSE track

\* one step of the media task of newTracks[k]; when uploadTrackMedia returns,
\* the closure of lines 94-111 runs to its end in the same step
UploadStep(k) ==
    /\ pc = "upload"
    /\ k \in InFlight
    /\ \E s \in TaskSteps(tasks[k]) :
        /\ bucket' = Saved(bucket, s.put)
        /\ IF s.task.pc = "returned"
           THEN /\ tasks' = [tasks EXCEPT ![k] = [pc |-> "settled"]]
                /\ newTracks' = [newTracks EXCEPT
                                   ![k] = trackAfterUpload(@, s.task.result)]
                /\ uploaded' = IF s.task.result # Null THEN uploaded + 1 ELSE uploaded
                /\ kept' = IF s.task.result # Null THEN kept ELSE kept + 1
                /\ mediaResults' = [j \in DOMAIN mediaResults \cup {k} |->
                                       IF j = k THEN s.task.result ELSE mediaResults[j]]
           ELSE /\ tasks' = [tasks EXCEPT ![k] = s.task]
                /\ UNCHANGED <<newTracks, uploaded, kept, mediaResults>>
    /\ UNCHANGED <<migVars, adapterVars>>
    /\ UNCHANGED <<pureVars, pc, dryRun, results, allTracks, allStats, exitCode, ioError,
                   dedupVars, upI, writeVars>>

UploadChunkDoneUnjoined ==
    /\ pc = "upload"
    /\ upI' = upI + UPLOAD_CONCURRENCY
    /\ IF upI' < Len(newTracks)
       THEN /\ tasks' = chunkTasks(newTracks, upI')
            /\ pc' = "upload"
       ELSE /\ tasks' = EmptyMap
            /\ pc' = "write"
    /\ UNCHANGED <<migVars, adapterVars>>
    /\ UNCHANGED <<pureVars, dryRun, results, allTracks, allStats, newTracks,
                   exitCode, ioError, dedupVars, uploaded, kept, mediaResults, bucket,
                   writeVars>>

\* main, lines 91-93 and 113-115: Promise.allSettled of the chunk has settled;
\* the loop starts the next chunk or ends
UploadChunkDone ==
    /\ pc = "upload"
    /\ InFlight = {}
    /\ upI' = upI + UPLOAD_CONCURRENCY
    /\ IF upI' < Len(newTracks)
       THEN /\ tasks' = chunkTasks(newTracks, upI')
            /\ pc' = "upload"
       ELSE /\ tasks' = EmptyMap
            /\ pc' = "write"
    /\ UNCHANGED <<migVars, adapterVars>>
    /\ UNCHANGED <<pureVars, dryRun, results, allTracks, allStats, newTracks,
                   exitCode, ioError, dedupVars, uploaded, kept, mediaResults, bucket,
                   writeVars>>

\* main, lines 118-139: the dry-run branch and the empty branch go on to the
\* summary and main returns; otherwise batchWriteTracks is called and runs to
\* its first batch.commit
MainWrite ==
    /\ pc = "write"
    /\ IF ~dryRun /\ Len(newTracks) > 0
       THEN /\ pc' = "commit"
            /\ wI' = 0
            /\ exitCode' = exitCode
       ELSE /\ pc' = "done"
            /\ exitCode' = {0}
            /\ wI' = wI
    /\ UNCHANGED <<migVars, adapterVars>>
    /\ UNCHANGED <<pureVars, dryRun, results, allTracks, allStats, newTracks,
                   ioError, dedupVars, uploadVars, commits, catalog, catalog0>>

\* batch.set(ref, {...track, addedAt: serverTimestamp()})
document(track) == [addedAt |-> "serverTimestamp"] @@ track

committedButLast(cat, chunk) ==
    LET written == {chunk[j].id : j \in 1..(Len(chunk) - 1)}
    IN [id \in DOMAIN cat \cup written |->
          IF id \in written
          THEN document(chunk[CHOOSE j \in 1..(Len(chunk) - 1) : chunk[j].id = id])
          ELSE cat[id]]

\* the catalog after batch.commit of the tracks of chunk
committed(cat, chunk) ==
    LET written == {chunk[j].id : j \in 1..Len(chunk)}
        \* a batch that sets one document twice keeps the last set
        last(id) == CHOOSE j \in 1..Len(chunk) :
                       /\ chunk[j].id = id
                       /\ \A j2 \in 1..Len(chunk) : chunk[j2].id = id => j2 <= j
    IN [id \in DOMAIN cat \cup written |->
          IF id \in written THEN document(chunk[last(id)]) ELSE cat[id]]

\* batchWriteTracks, lines 167-184: one pass of the loop, batch.commit succeeded
WriteChunk ==
    /\ pc = "commit"
    /\ wI < Len(newTracks)
    /\ LET chunk == slice(newTracks, wI, wI + BATCH_SIZE)
       IN /\ catalog' = committed(catalog, chunk)
          /\ commits' = Append(commits, [size |-> Len(chunk),
                                         written |-> wI + Len(chunk),
                                         total |-> Len(newTracks)])
    /\ wI' = wI + BATCH_SIZE
    /\ UNCHANGED <<migVars, adapterVars>>
    /\ UNCHANGED <<pureVars, mainVars, dedupVars, uploadVars, catalog0>>

WriteFailSwallowed ==
    /\ pc = "commit"
    /\ wI < Len(newTracks)
    /\ wI' = wI + BATCH_SIZE
    /\ ioError' = "commit"
    /\ UNCHANGED <<migVars, adapterVars>>
    /\ UNCHANGED <<pureVars, pc, dryRun, results, allTracks, allStats, newTracks,
                   exitCode, dedupVars, uploadVars, commits, catalog, catalog0>>

\* batchWriteTracks, line 179: batch.commit rejects; main().catch, lines 187-190
WriteFail ==
    /\ pc = "commit"
    /\ wI < Len(newTracks)
    /\ pc' = "fatal"
    /\ exitCode' = {1}
    /\ ioError' = "commit"
    /\ UNCHANGED <<migVars, adapterVars>>
    /\ UNCHANGED <<pureVars, dryRun, results, allTracks, allStats, newTracks,
                   dedupVars, uploadVars, writeVars>>

\* batchWriteTracks returns; main, lines 128-139: the summary, and main returns
WriteReturn ==
    /\ pc = "commit"
    /\ wI >= Len(newTracks)
    /\ pc' = "done"
    /\ exitCode' = {0}
    /\ UNCHANGED <<migVars, adapterVars>>
    /\ UNCHANGED <<pureVars, dryRun, results, allTracks, allStats, newTracks,
                   ioError, dedupVars, uploadVars, writeVars>>

----------------------------------------------------------------------------
(* The import run: inputs and specification *)

DIGITS == <<"0", "1", "2", "3", "4", "5", "6", "7", "8", "9">>

\* the decimal digits of n, as `${n}` gives them
RECURSIVE decimal(_)
decimal(n) == IF n < 10 THEN <<DIGITS[n + 1]>>
              ELSE decimal(n \div 10) \o <<DIGITS[(n % 10) + 1]>>

\* `jamendo-${t.id}`
jamendoId(n) == SOURCE \o <<"-">> \o decimal(n)

\* a record as fetchJamendo's sanitizeTrack call leaves it (the fields the
\* importer reads; the others are carried the same way)
harvested(n) ==
    [id |-> jamendoId(n),
     title |-> <<"T">> \o decimal(n),
     audioUrl |-> HTTP \o <<":">> \o SOURCE \o <<"/", "a">> \o decimal(n),
     artwork |-> HTTP \o <<":">> \o SOURCE \o <<"/", "i">> \o decimal(n)]

\* a record validateTrack rejects: its audio URL is empty
noAudio == [harvested(9) EXCEPT !.audioUrl = <<>>]

\* the ids a source returns in an import run
HarvestIds == {1, 2, 3}

TrackPool == {harvested(n) : n \in HarvestIds} \cup {noAudio}

SeqsUpTo(S, n) == UNION {[1..m -> S] : m \in 0..n}

\* The listings a source returns, up to the names of the ids: the ids are
\* numbered in the order in which the listing first holds them (any listing
\* is one of these with its ids renamed; no step depends on an id's digits).
Listings ==
    {ts \in SeqsUpTo(TrackPool, MaxHarvest) :
        \A i \in 1..Len(ts) : \A n \in HarvestIds \ {1} :
            ts[i] = harvested(n) => \E j \in 1..(i - 1) : ts[j] = harvested(n - 1)}

\* what a source adapter's promise can settle to: a listing, a short listing
\* with an error entry, or a rejection
SourceOutcomes ==
    {[status |-> "fulfilled",
      value |-> [sourceName |-> SOURCE, tracks |-> ts, errors |-> <<>>]] :
        ts \in Listings}
    \cup {[status |-> "fulfilled",
           value |-> [sourceName |-> SOURCE, tracks |-> ts,
                      errors |-> <<"Page 1 error: fetch failed">>]] :
             ts \in {l \in Listings : Len(l) <= 1}}
    \cup {[status |-> "rejected"]}

\* a document written by an earlier run
earlier(n) == [addedAt |-> "earlier"] @@ [harvested(n) EXCEPT !.title = <<"o", "l", "d">>]

Catalogs ==
    {[id \in {jamendoId(n) : n \in S} |->
        earlier(CHOOSE n \in S : jamendoId(n) = id)] : S \in SUBSET HarvestIds}

PureIdle == fn = "none" /\ arg = <<>> /\ ret = <<>>

ImportInit ==
    /\ PureIdle
    /\ pc = "fetch"
    /\ dryRun \in BOOLEAN
    /\ results \in [1..1 -> SourceOutcomes]
    /\ allTracks = <<>> /\ allStats = <<>>
    /\ ids = <<>> /\ dedupI = 0 /\ existing = {} /\ lookups = <<>>
    /\ newTracks = <<>>
    /\ upI = 0 /\ tasks = EmptyMap /\ uploaded = 0 /\ kept = 0
    /\ mediaResults = EmptyMap
    /\ bucket = EmptyMap
    /\ wI = 0 /\ commits = <<>>
    /\ catalog \in Catalogs
    /\ catalog0 = catalog
    /\ exitCode = {}
    /\ ioError = "none"
    /\ MigIdle
    /\ AdapterIdle

ImportNext ==
    \/ MainCollect
    \/ DedupChunk
    \/ DedupFail
    \/ DedupReturn
    \/ \E k \in DOMAIN tasks : UploadStep(k)
    \/ UploadChunkDone
    \/ MainWrite
    \/ WriteChunk
    \/ WriteFail
    \/ WriteReturn

Spec == ImportInit /\ [][ImportNext]_vars

----------------------------------------------------------------------------
(* Claims about the import run *)

\* what a claim calls a valid record
ValidRecord(r) ==
    /\ r.id # <<>> /\ Len(r.id) <= 128
    /\ r.audioUrl # <<>>
    /\ Len(r.audioUrl) >= 4 /\ \A i \in 1..4 : r.audioUrl[i] = HTTP[i]
    /\ r.title # <<>>

\* the records the sources returned, in order
Harvest ==
    IF results[1].status = "fulfilled" THEN results[1].value.tracks ELSE <<>>

idsOf(tracks) == [i \in 1..Len(tracks) |-> tracks[i].id]

\* the ids of the harvested records that are valid
ValidIds == {Harvest[i].id : i \in {j \in 1..Len(Harvest) : ValidRecord(Harvest[j])}}

\* C2: the records handed to the dedup check are exactly the harvested records
\* that pass validation, in order; no id of an invalid record reaches a lookup,
\* a media transfer or a written document; and the run does not end in a fatal
\* error unless a store call rejected.
C2_InvalidDropped ==
    /\ pc # "fetch" =>
         /\ allTracks = SelectSeq(Harvest, ValidRecord)
         /\ ids = idsOf(allTracks)
    /\ \A c \in 1..Len(lookups) : \A j \in 1..Len(lookups[c]) : lookups[c][j] \in ValidIds
    /\ \A i \in 1..Len(newTracks) : newTracks[i].id \in ValidIds
    /\ \A k \in DOMAIN tasks : tasks[k].pc # "settled" => tasks[k].trackId \in ValidIds
    /\ \A id \in DOMAIN catalog \ DOMAIN catalog0 : id \in ValidIds
    /\ exitCode = {1} => ioError # "none"

\* three records harvested, one of them with an empty audioUrl: two went on
\* and were written
C2_Witness ==
    /\ pc = "done" /\ ~dryRun
    /\ Len(Harvest) = 3
    /\ \E i \in 1..3 : Harvest[i].audioUrl = <<>>
    /\ Len(allTracks) = 2
    /\ Len(newTracks) = 2
    /\ Cardinality(DOMAIN catalog \ DOMAIN catalog0) = 2

\* the dedup check has returned to main
AfterDedup ==
    \/ pc \in {"upload", "write", "commit", "done"}
    \/ pc = "fatal" /\ ioError = "commit"

\* C4: the new records are exactly the valid records whose id the catalog did
\* not hold when the run started; no document the catalog held is changed;
\* and a finished live run has written exactly the new ids.
C4_NewIffAbsent ==
    /\ AfterDedup =>
         idsOf(newTracks) =
             idsOf(SelectSeq(allTracks, LAMBDA t : t.id \notin DOMAIN catalog0))
    /\ \A id \in DOMAIN catalog0 : id \in DOMAIN catalog /\ catalog[id] = catalog0[id]
    /\ (pc = "done" /\ ~dryRun) =>
         DOMAIN catalog \ DOMAIN catalog0 = {newTracks[i].id : i \in 1..Len(newTracks)}

\* jamendo-1, jamendo-2, jamendo-3 harvested with jamendo-2 in the catalog:
\* jamendo-1 and jamendo-3 were written and jamendo-2 was left as it was
C4_Witness ==
    /\ pc = "done" /\ ~dryRun
    /\ idsOf(allTracks) = <<jamendoId(1), jamendoId(2), jamendoId(3)>>
    /\ DOMAIN catalog0 = {jamendoId(2)}
    /\ idsOf(newTracks) = <<jamendoId(1), jamendoId(3)>>
    /\ DOMAIN catalog = {jamendoId(1), jamendoId(2), jamendoId(3)}
    /\ catalog[jamendoId(2)] = earlier(2)

\* the new records as they were harvested
NewAsHarvested == SelectSeq(allTracks, LAMBDA t : t.id \notin DOMAIN catalog0)

\* no later record of the run has the id of record k
LastOfItsId(k) == \A j \in (k + 1)..Len(newTracks) : newTracks[j].id # newTracks[k].id

\* C10: a new record whose media transfer returned null stays in the list given
\* to the batch writer exactly as it was harvested (audioUrl and artwork
\* unchanged, no originalAudioUrl or originalArtwork), and a finished live run
\* has committed it under its id.
C10_FailedTransferStillWritten ==
    \A k \in DOMAIN mediaResults :
        mediaResults[k] = Null =>
            /\ newTracks[k] = NewAsHarvested[k]
            /\ "originalAudioUrl" \notin DOMAIN newTracks[k]
            /\ "originalArtwork" \notin DOMAIN newTracks[k]
            /\ pc = "done" =>
                 /\ newTracks[k].id \in DOMAIN catalog
                 /\ LastOfItsId(k) =>
                      catalog[newTracks[k].id] = document(NewAsHarvested[k])

\* a run in which the transfer of one record failed has finished, and the
\* catalog holds that record with its harvested URLs
C10_Witness ==
    /\ pc = "done"
    /\ \E k \in DOMAIN mediaResults :
         /\ mediaResults[k] = Null
         /\ LastOfItsId(k)
         /\ catalog[newTracks[k].id].audioUrl = NewAsHarvested[k].audioUrl
    /\ \E k \in DOMAIN mediaResults : mediaResults[k] # Null

----------------------------------------------------------------------------
(* Specifications of single calls *)

\* every variable of the import run, at rest
ImportIdle ==
    /\ dryRun = FALSE
    /\ results = <<>>
    /\ allTracks = <<>> /\ allStats = <<>>
    /\ ids = <<>> /\ dedupI = 0 /\ existing = {} /\ lookups = <<>>
    /\ newTracks = <<>>
    /\ upI = 0 /\ tasks = EmptyMap /\ uploaded = 0 /\ kept = 0
    /\ mediaResults = EmptyMap
    /\ bucket = EmptyMap
    /\ wI = 0 /\ commits = <<>>
    /\ catalog = EmptyMap
    /\ catalog0 = EmptyMap
    /\ exitCode = {}
    /\ ioError = "none"
    /\ MigIdle
    /\ AdapterIdle

\* the strings over alphabet of at most n characters
Strings(alphabet, n) == SeqsUpTo(alphabet, n)

\* ids of the lengths around the ceiling of validateTrack, and short ones
IdSamples == {Repeat("x", n) : n \in {0, 1} \cup {m \in 1..MaxIdLen : m > MaxIdLen - 4}}

ValidateInputs ==
    [id : IdSamples,
     audioUrl : Strings({"h", "t", "p"}, MaxUrlLen),
     title : {<<>>, <<"T">>, <<"a", "b">>}]

ValidateInit ==
    /\ fn = "validateTrack"
    /\ arg \in ValidateInputs
    /\ ret = <<>>
    /\ pc = "call"
    /\ ImportIdle

\* validateTrack(arg) is called and returns
CallValidateTrack ==
    /\ fn = "validateTrack"
    /\ pc = "call"
    /\ ret' = validateTrack(arg)
    /\ pc' = "returned"
    /\ UNCHANGED <<migVars, adapterVars>>
    /\ UNCHANGED <<fn, arg, dryRun, results, allTracks, allStats, newTracks,
                   exitCode, ioError, dedupVars, uploadVars, writeVars>>

SpecValidate == ValidateInit /\ [][CallValidateTrack]_vars

\* C1: validateTrack(r) is true exactly when r.id is non-empty and at most 128
\* characters long, r.audioUrl is non-empty and starts with 'http', and r.title
\* is non-empty.
C1_ValidateIff ==
    (fn = "validateTrack" /\ pc = "returned") =>
        (ret = TRUE <=>
            /\ arg.id # <<>> /\ Len(arg.id) <= 128
            /\ arg.audioUrl # <<>>
            /\ Len(arg.audioUrl) >= 4
            /\ \A i \in 1..4 : arg.audioUrl[i] = HTTP[i]
            /\ arg.title # <<>>)

\* a record whose id is exactly 128 characters long was accepted
C1_Witness ==
    /\ fn = "validateTrack" /\ pc = "returned"
    /\ ret = TRUE
    /\ Len(arg.id) = 128

----------------------------------------------------------------------------
(* batchCheckExisting, called on its own *)

\* id lists: n distinct ids, or n ids that repeat with period 7
IdLists ==
    {[i \in 1..n |-> jamendoId(i)] : n \in 0..MaxIds}
    \cup {[i \in 1..n |-> jamendoId(i % 7)] : n \in 0..MaxIds}

\* the documents of the tracks collection, by the numbers of their ids
catalogOf(S) ==
    [id \in {jamendoId(n) : n \in S} |-> earlier(CHOOSE n \in S : jamendoId(n) = id)]

DedupCatalogs ==
    {catalogOf(S) : S \in {{}, {2}, {100, 101}, 1..100, 0..MaxIds,
                           {n \in 0..MaxIds : n % 3 = 0}, {999}}}

DedupInit ==
    /\ fn = "batchCheckExisting" /\ arg = <<>> /\ ret = <<>>
    /\ pc = "dedupCall"
    /\ dryRun = FALSE /\ results = <<>>
    /\ allTracks = <<>> /\ allStats = <<>>
    /\ ids \in IdLists
    /\ dedupI = 0 /\ existing = {} /\ lookups = <<>>
    /\ newTracks = <<>>
    /\ upI = 0 /\ tasks = EmptyMap /\ uploaded = 0 /\ kept = 0
    /\ mediaResults = EmptyMap
    /\ bucket = EmptyMap
    /\ wI = 0 /\ commits = <<>>
    /\ catalog \in DedupCatalogs
    /\ catalog0 = catalog
    /\ exitCode = {}
    /\ ioError = "none"
    /\ MigIdle
    /\ AdapterIdle

\* batchCheckExisting, line 160: the loop has ended and existing is returned
DedupCallReturn ==
    /\ pc = "dedupCall"
    /\ dedupI >= Len(ids)
    /\ ret' = existing
    /\ pc' = "returned"
    /\ UNCHANGED <<migVars, adapterVars>>
    /\ UNCHANGED <<fn, arg, dryRun, results, allTracks, allStats, newTracks,
                   exitCode, ioError, dedupVars, uploadVars, writeVars>>

\* batchCheckExisting, line 151: db.getAll rejects and so does the call
DedupCallFail ==
    /\ pc = "dedupCall"
    /\ dedupI < Len(ids)
    /\ lookups' = Append(lookups, slice(ids, dedupI, dedupI + CHUNK))
    /\ pc' = "rejected"
    /\ ioError' = "getAll"
    /\ UNCHANGED <<migVars, adapterVars>>
    /\ UNCHANGED <<pureVars, dryRun, results, allTracks, allStats, newTracks,
                   exitCode, ids, dedupI, existing, uploadVars, writeVars>>

SpecDedup == DedupInit /\ [][DedupChunk \/ DedupCallReturn \/ DedupCallFail]_vars

RECURSIVE flatten(_)
flatten(ss) == IF ss = <<>> THEN <<>> ELSE Head(ss) \o flatten(Tail(ss))

\* C3: for a list of N ids batchCheckExisting issues ceil(N/100) lookups of at
\* most 100 ids each, which taken in order are the list, and returns exactly
\* the ids of the list that the tracks collection holds.
C3_DedupChunks ==
    /\ \A c \in 1..Len(lookups) : Len(lookups[c]) \in 1..100
    /\ (fn = "batchCheckExisting" /\ pc = "returned") =>
         /\ Len(lookups) = (Len(ids) + 99) \div 100
         /\ flatten(lookups) = ids
         /\ ret = {ids[i] : i \in {j \in 1..Len(ids) : ids[j] \in DOMAIN catalog}}

\* a list of more than 200 ids took three lookups, and some of its ids, not
\* all, were found
C3_Witness ==
    /\ fn = "batchCheckExisting" /\ pc = "returned"
    /\ Len(ids) > 200
    /\ Len(lookups) = 3
    /\ ret # {}
    /\ \E i \in 1..Len(ids) : ids[i] \notin ret

----------------------------------------------------------------------------
(* batchWriteTracks, as main calls it (line 125) with a list of new tracks *)

\* a record as main leaves it when its media transfer succeeded
transferred(track) ==
    trackAfterUpload(track,
        [audioUrl |-> downloadUrl(audioPath(track.id), <<"u", "1">>),
         artwork |-> downloadUrl(artworkPath(track.id), <<"u", "1">>),
         originalAudioUrl |-> track.audioUrl,
         originalArtwork |-> track.artwork])

\* the lengths around the multiples of BATCH_SIZE
WriteSizes == {n \in 0..MaxWrite : n = 2 \/ n % BATCH_SIZE \in {0, 1, BATCH_SIZE - 1}}

\* lists of new tracks: as harvested; every other one transferred; and pairs
\* of records of one id (an item listed twice) of which the first was
\* transferred and the second was not
WriteLists ==
    {[i \in 1..n |-> harvested(i)] : n \in WriteSizes}
    \cup {[i \in 1..n |-> IF i % 2 = 1 THEN transferred(harvested(i))
                          ELSE harvested(i)] : n \in WriteSizes}
    \cup {[i \in 1..n |-> IF i % 2 = 1 THEN transferred(harvested((i + 1) \div 2))
                          ELSE harvested((i + 1) \div 2)] : n \in WriteSizes}

WriteInit ==
    /\ PureIdle
    /\ pc = "write"
    /\ dryRun = FALSE /\ results = <<>>
    /\ allTracks = <<>> /\ allStats = <<>>
    /\ ids = <<>> /\ dedupI = 0 /\ existing = {} /\ lookups = <<>>
    /\ newTracks \in WriteLists
    /\ upI = 0 /\ tasks = EmptyMap /\ uploaded = 0 /\ kept = 0
    /\ mediaResults = EmptyMap
    /\ bucket = EmptyMap
    /\ wI = 0 /\ commits = <<>>
    /\ catalog \in {EmptyMap, catalogOf({MaxWrite + 1, MaxWrite + 2})}
    /\ catalog0 = catalog
    /\ exitCode = {}
    /\ ioError = "none"
    /\ MigIdle
    /\ AdapterIdle

SpecWrite == WriteInit /\ [][MainWrite \/ WriteChunk \/ WriteFail \/ WriteReturn]_vars

\* the last record with the id of record i among the first n records
LastWithId(i, n) ==
    CHOOSE j \in i..n :
        /\ newTracks[j].id = newTracks[i].id
        /\ \A j2 \in (j + 1)..n : newTracks[j2].id # newTracks[i].id

\* record i is stored under its id with all its fields
Stored(i) ==
    /\ newTracks[i].id \in DOMAIN catalog
    /\ \A f \in DOMAIN newTracks[i] :
         /\ f \in DOMAIN catalog[newTracks[i].id]
         /\ catalog[newTracks[i].id][f] = newTracks[i][f]
    /\ DOMAIN catalog[newTracks[i].id] = DOMAIN newTracks[i] \cup {"addedAt"}

\* batchWriteTracks has returned to main and main has ended
Written == pc = "done" /\ ~dryRun /\ Len(newTracks) > 0

\* the commits of a list of N tracks: ceil(N/500) of them, chunk k of at most
\* 500 records, with min(500k, N) reported as written after it
CommitsAsClaimed ==
    /\ Len(commits) = (Len(newTracks) + 499) \div 500
    /\ \A k \in 1..Len(commits) :
         /\ commits[k].size \in 1..500
         /\ commits[k].written = Min(500 * k, Len(newTracks))
         /\ commits[k].total = Len(newTracks)

CatalogAfter(n) ==
    [id \in DOMAIN catalog0 \cup {newTracks[i].id : i \in 1..n} |->
        IF \E i \in 1..n : newTracks[i].id = id
        THEN document(newTracks[LastWithId(CHOOSE i \in 1..n : newTracks[i].id = id, n)])
        ELSE catalog0[id]]

\* C6: when the commit of chunk k fails the run ends with exit status 1, the
\* catalog holds the chunks before k and nothing of chunk k or of a later
\* chunk, and nothing is committed afterwards.
C6_FailedChunkAborts ==
    /\ [](ioError = "commit" =>
            /\ pc = "fatal" /\ exitCode = {1}
            /\ wI = BATCH_SIZE * Len(commits)
            /\ wI < Len(newTracks)
            /\ catalog = CatalogAfter(wI))
    /\ [][pc = "fatal" => (pc' = "fatal" /\ catalog' = catalog /\ commits' = commits)]_vars

\* the second commit of a list of more than 500 tracks failed: the first 500
\* tracks are in the catalog, and no other
C6_Witness ==
    /\ ioError = "commit" /\ pc = "fatal" /\ exitCode = {1}
    /\ Len(commits) = 1
    /\ Len(newTracks) > 501
    /\ newTracks[500].id \in DOMAIN catalog
    /\ newTracks[501].id \notin DOMAIN catalog

----------------------------------------------------------------------------
(* uploadTrackMedia, called on its own *)

\* an object an earlier call left in the bucket
stale == [data |-> <<"o", "l", "d">>, contentType |-> "audio/mpeg",
          token |-> <<"u", "0">>]

MediaBuckets(trackId) ==
    {EmptyMap,
     [q \in {audioPath(trackId), artworkPath(trackId)} |-> stale]}

\* the arguments of the call: the id, audio URL and artwork URL of a harvested
\* record or of a catalog document, whose artwork may be empty
MediaArgs ==
    UNION {{[trackId |-> h.id, audioUrl |-> a, artworkUrl |-> w] :
               a \in {h.audioUrl, <<"f", "t", "p", ":", "a">>},
               w \in {h.artwork, <<>>}} :
           h \in {harvested(1), harvested(2), harvested(10)}}

MediaInit ==
    /\ fn = "uploadTrackMedia" /\ arg \in MediaArgs /\ ret = <<>>
    /\ pc = "mediaCall"
    /\ dryRun = FALSE /\ results = <<>>
    /\ allTracks = <<>> /\ allStats = <<>>
    /\ ids = <<>> /\ dedupI = 0 /\ existing = {} /\ lookups = <<>>
    /\ newTracks = <<>>
    /\ upI = 0 /\ uploaded = 0 /\ kept = 0
    /\ tasks = [k \in {1} |-> NewTask("call", arg.trackId, arg.audioUrl, arg.artworkUrl)]
    /\ mediaResults = EmptyMap
    /\ bucket \in MediaBuckets(arg.trackId)
    /\ wI = 0 /\ commits = <<>>
    /\ catalog = EmptyMap
    /\ catalog0 = EmptyMap
    /\ exitCode = {}
    /\ ioError = "none"
    /\ MigIdle
    /\ AdapterIdle

\* one step of the call; its last step returns the result to the caller
MediaStep(k) ==
    /\ pc = "mediaCall"
    /\ k \in InFlight
    /\ \E s \in TaskSteps(tasks[k]) :
        /\ tasks' = [tasks EXCEPT ![k] = s.task]
        /\ bucket' = Saved(bucket, s.put)
        /\ IF s.task.pc = "returned"
           THEN /\ ret' = s.task.result
                /\ pc' = "returned"
           ELSE UNCHANGED <<ret, pc>>
    /\ UNCHANGED <<migVars, adapterVars>>
    /\ UNCHANGED <<fn, arg, dryRun, results, allTracks, allStats, newTracks,
                   exitCode, ioError, dedupVars, upI, uploaded, kept, mediaResults,
                   writeVars>>

SpecMedia == MediaInit /\ [][\E k \in DOMAIN tasks : MediaStep(k)]_vars

\* the awaited calls of an audio transfer that ended in a failure
AudioFailures ==
    ({"audioFetch"} \X {"http-error", "network-error", "timeout"})
    \cup ({"audioBody", "audioSave"} \X {"error"})

\* the awaited calls of an artwork transfer that ended in a failure
ArtFailures ==
    ({"artFetch"} \X {"http-error", "network-error", "timeout"})
    \cup ({"artBody", "artSave"} \X {"error"})

\* C7: when the audio download or the audio upload of a call fails, the call
\* returns null at once, having attempted no artwork download or upload and
\* saved no artwork object.
C7_AudioMandatory ==
    \A k \in DOMAIN tasks :
        (tasks[k].pc # "settled" /\ tasks[k].events \cap AudioFailures # {}) =>
            /\ tasks[k].pc = "returned"
            /\ tasks[k].result = Null
            /\ tasks[k].attempts \cap {"artDownload", "artUpload"} = {}
            /\ fn = "uploadTrackMedia" =>
                 /\ ret = Null
                 /\ \/ artworkPath(tasks[k].trackId) \notin DOMAIN bucket
                    \/ bucket[artworkPath(tasks[k].trackId)] = stale

\* the audio was downloaded and its upload failed: the call returned null
\* without touching the artwork
C7_Witness ==
    /\ fn = "uploadTrackMedia" /\ pc = "returned"
    /\ <<"audioSave", "error">> \in tasks[1].events
    /\ ~Falsy(tasks[1].artworkUrl)
    /\ ret = Null
    /\ tasks[1].attempts = {"audioDownload", "audioUpload"}

\* C8: when the audio transfer succeeds and the artwork transfer fails, the
\* call returns a result, not null, whose audioUrl is the URL of the object
\* saved for the audio, whose artwork is the artwork URL it was given, and whose
\* originalAudioUrl and originalArtwork are the URLs it was given.
C8_ArtworkOptional ==
    \A k \in DOMAIN tasks :
        (tasks[k].pc # "settled" /\ tasks[k].events \cap ArtFailures # {}) =>
            /\ tasks[k].pc = "returned"
            /\ tasks[k].result # Null
            /\ audioPath(tasks[k].trackId) \in DOMAIN bucket
            /\ tasks[k].result.audioUrl =
                 downloadUrl(audioPath(tasks[k].trackId),
                             bucket[audioPath(tasks[k].trackId)].token)
            /\ bucket[audioPath(tasks[k].trackId)].data = tasks[k].audioUrl
            /\ tasks[k].result.artwork = tasks[k].artworkUrl
            /\ tasks[k].result.originalAudioUrl = tasks[k].audioUrl
            /\ tasks[k].result.originalArtwork = tasks[k].artworkUrl

\* the artwork download timed out after the audio was saved: the call returned
\* the new audio URL and the artwork URL it was given
C8_Witness ==
    /\ fn = "uploadTrackMedia" /\ pc = "returned"
    /\ <<"artFetch", "timeout">> \in tasks[1].events
    /\ ret # Null
    /\ ret.artwork = arg.artworkUrl
    /\ startsWith(ret.audioUrl, STORAGE_URL)

----------------------------------------------------------------------------
(* The storage migration script, translations.ts lines 168-316 *)

CONCURRENCY == 3
PAGE_SIZE == 100

NaN == [kind |-> "NaN"]
Infinity == [kind |-> "Infinity"]
Number(n) == [kind |-> "number", n |-> n]

\* JavaScript's x < limit for a number x
lessThan(x, limit) ==
    CASE limit.kind = "Infinity" -> TRUE
      [] limit.kind = "NaN" -> FALSE
      [] OTHER -> x < limit.n

isDigit(c) == \E i \in 1..10 : DIGITS[i] = c
digitValue(c) == (CHOOSE i \in 1..10 : DIGITS[i] = c) - 1

RECURSIVE trimStart(_)
trimStart(s) == IF s # <<>> /\ Head(s) = " " THEN trimStart(Tail(s)) ELSE s

RECURSIVE digitPrefix(_)
digitPrefix(s) ==
    IF s # <<>> /\ isDigit(Head(s)) THEN <<Head(s)>> \o digitPrefix(Tail(s))
    ELSE <<>>

RECURSIVE digitsValue(_)
digitsValue(ds) ==
    IF ds = <<>> THEN 0
    ELSE 10 * digitsValue(SubSeq(ds, 1, Len(ds) - 1)) + digitValue(ds[Len(ds)])

\* parseInt(s, 10): leading blanks, a sign, then the digits up to the first
\* character that is not one; NaN when there is no digit
parseInt(s) ==
    LET t == trimStart(s)
        signed == t # <<>> /\ Head(t) \in {"-", "+"}
        ds == digitPrefix(IF signed THEN Tail(t) ELSE t)
    IN IF ds = <<>> THEN NaN
       ELSE Number(IF signed /\ Head(t) = "-" THEN 0 - digitsValue(ds)
                   ELSE digitsValue(ds))

\* line 186: process.env.LIMIT ? parseInt(process.env.LIMIT, 10) : Infinity
limitOf(env) == IF Falsy(env) THEN Infinity ELSE parseInt(env)

\* String.prototype.includes
includes(s, sub) ==
    \E i \in 0..(Len(s) - Len(sub)) : SubSeq(s, i + 1, i + Len(sub)) = sub

\* the characters of document ids, in the order of their code points
CharOrder == <<"-", "0", "1", "2", "3", "4", "5", "6", "7", "8", "9",
               "a", "d", "e", "i", "j", "m", "n", "o", "z">>
Ord(c) == CHOOSE i \in 1..Len(CharOrder) : CharOrder[i] = c

\* orderBy('__name__'): document id a sorts before document id b
before(a, b) ==
    LET diff == {i \in 1..Min(Len(a), Len(b)) : a[i] # b[i]}
    IN IF diff = {} THEN Len(a) < Len(b)
       ELSE LET i == CHOOSE x \in diff : \A y \in diff : x <= y
            IN Ord(a[i]) < Ord(b[i])

\* the ids of S in ascending order: each id at the place that the number of
\* ids before it gives
ascending(S) ==
    LET placed == {<<Cardinality({y \in S : before(y, x)}) + 1, x>> : x \in S}
    IN [k \in 1..Cardinality(S) |-> (CHOOSE p \in placed : p[1] = k)[2]]

\* lines 208-211 and 290-294: the snapshot query.get() answers with: the first
\* PAGE_SIZE documents after the document q starts after
pageAfterInclusive(cat, q) ==
    LET after == {id \in DOMAIN cat : \A a \in q : a = id \/ before(a, id)}
        sorted == ascending(after)
    IN [k \in 1..Min(PAGE_SIZE, Len(sorted)) |->
           [id |-> sorted[k], data |-> cat[sorted[k]]]]

pageAfter(cat, q) ==
    LET after == {id \in DOMAIN cat : \A a \in q : before(a, id)}
        sorted == ascending(after)
    IN [k \in 1..Min(PAGE_SIZE, Len(sorted)) |->
           [id |-> sorted[k], data |-> cat[sorted[k]]]]

\* lines 243-258: what the closure does with a document
field(data, name) == IF name \in DOMAIN data THEN data[name] ELSE <<>>
dispositionByUrlOnly(data) ==
    IF Falsy(field(data, "audioUrl")) \/ ~includes(field(data, "audioUrl"), SOURCE)
    THEN "skipForeign"
    ELSE "migrate"

disposition(data) ==
    IF ~Falsy(field(data, "originalAudioUrl")) THEN "skipMigrated"
    ELSE IF Falsy(field(data, "audioUrl")) \/ ~includes(field(data, "audioUrl"), SOURCE)
         THEN "skipForeign"
    ELSE "migrate"

inChunk(page, i) == (i + 1)..Min(i + CONCURRENCY, Len(page))

\* lines 239-267: chunk.map runs every closure of the chunk up to its first
\* await: the counters, and a media task for every document to migrate
startChunk(page, i, st, sc) ==
    LET chunk == inChunk(page, i)
        eligible == {k \in chunk : disposition(page[k].data) = "migrate"}
    IN [stats |-> [st EXCEPT
                     !.total = @ + Cardinality(chunk),
                     !.skipped = @ + Cardinality(chunk \ eligible),
                     !.migrated = IF dryRun THEN @ + Cardinality(eligible) ELSE @],
        tasks |-> IF dryRun THEN EmptyMap
                  ELSE [k \in eligible |->
                          NewTask("migrate", page[k].id, page[k].data.audioUrl,
                                  field(page[k].data, "artwork"))],
        scanned |-> sc \o [j \in 1..Cardinality(chunk) |-> page[i + j].id]]

\* lines 228 and 238: the loop conditions, evaluated with i and processed as
\* they are: the next chunk of the page starts, or the page ends and the next
\* query is built, or the pass ends
loopStep(page, i, proc, st, sc) ==
    IF i < Len(page) /\ lessThan(proc, limitCount)
    THEN LET c == startChunk(page, i, st, sc)
         IN [pc |-> "migChunk", stats |-> c.stats, tasks |-> c.tasks,
             scanned |-> c.scanned, lastDocId |-> lastDocId, query |-> query]
    ELSE [pc |-> IF hasMore /\ lessThan(proc, limitCount) THEN "migQuery" ELSE "done",
          stats |-> st, tasks |-> EmptyMap, scanned |-> sc,
          lastDocId |-> page[Len(page)].id, query |-> {page[Len(page)].id}]

importVars == <<pureVars, results, allTracks, allStats, newTracks, dedupVars, upI,
                uploaded, kept, mediaResults, wI, commits, catalog0, adapterVars>>

\* lines 184-229: main runs to its first await
MigStart ==
    /\ pc = "migStart"
    /\ pc' = IF ~Falsy(startAfter) THEN "migResume"
             ELSE IF hasMore /\ lessThan(processed, limitCount) THEN "migQuery"
             ELSE "done"
    /\ exitCode' = IF pc' = "done" THEN {0} ELSE exitCode
    /\ UNCHANGED <<importVars, dryRun, ioError, tasks, bucket, catalog, migVars>>

\* lines 215-229: the START_AFTER document was read
MigResume ==
    /\ pc = "migResume"
    /\ query' = IF startAfter \in DOMAIN catalog THEN {startAfter} ELSE query
    /\ pc' = IF hasMore /\ lessThan(processed, limitCount) THEN "migQuery" ELSE "done"
    /\ exitCode' = IF pc' = "done" THEN {0} ELSE exitCode
    /\ UNCHANGED <<importVars, dryRun, ioError, tasks, bucket, catalog, limitCount,
                   startAfter, docs, mI, processed, stats, lastDocId, hasMore,
                   scanned, updates>>

\* line 215: reading the START_AFTER document rejects; main().catch, lines 312-315
MigResumeFail ==
    /\ pc = "migResume"
    /\ pc' = "fatal"
    /\ exitCode' = {1}
    /\ ioError' = "get"
    /\ UNCHANGED <<importVars, dryRun, tasks, bucket, catalog, migVars>>

\* lines 229-267: query.get() answered
MigQuery ==
    /\ pc = "migQuery"
    /\ LET page == pageAfter(catalog, query)
       IN IF page = <<>>
          THEN /\ hasMore' = FALSE
               /\ pc' = "done"
               /\ exitCode' = {0}
               /\ UNCHANGED <<docs, mI, stats, tasks, scanned, lastDocId, query>>
          ELSE LET r == loopStep(page, 0, processed, stats, scanned)
               IN /\ docs' = page
                  /\ mI' = 0
                  /\ pc' = r.pc
                  /\ stats' = r.stats
                  /\ tasks' = r.tasks
                  /\ scanned' = r.scanned
                  /\ lastDocId' = r.lastDocId
                  /\ query' = r.query
                  /\ exitCode' = IF r.pc = "done" THEN {0} ELSE exitCode
                  /\ UNCHANGED hasMore
    /\ UNCHANGED <<importVars, dryRun, ioError, bucket, catalog, limitCount,
                   startAfter, processed, updates>>

\* line 229: query.get() rejects; main().catch, lines 312-315
MigQueryFail ==
    /\ pc = "migQuery"
    /\ pc' = "fatal"
    /\ exitCode' = {1}
    /\ ioError' = "query"
    /\ UNCHANGED <<importVars, dryRun, tasks, bucket, catalog, migVars>>

\* lines 270-275: the fields doc.ref.update is called with
updateFields(result) ==
    [audioUrl |-> result.audioUrl, artwork |-> result.artwork,
     originalAudioUrl |-> result.originalAudioUrl,
     originalArtwork |-> result.originalArtwork]

\* one step of the media task of docs[k]; when uploadTrackMedia returns, the
\* closure goes on to doc.ref.update (lines 269-275) or counts the failure
\* (lines 278-281)
MigTaskStep(k) ==
    /\ pc = "migChunk"
    /\ k \in InFlight
    /\ \E s \in TaskSteps(tasks[k]) :
        /\ bucket' = Saved(bucket, s.put)
        /\ IF s.task.pc # "returned"
           THEN /\ tasks' = [tasks EXCEPT ![k] = s.task]
                /\ UNCHANGED <<stats, updates>>
           ELSE IF s.task.result # Null
           THEN /\ tasks' = [tasks EXCEPT ![k] =
                               [pc |-> "update", trackId |-> s.task.trackId,
                                result |-> s.task.result]]
                /\ updates' = Append(updates, [id |-> s.task.trackId,
                                               fields |-> updateFields(s.task.result)])
                /\ UNCHANGED stats
           ELSE /\ tasks' = [tasks EXCEPT ![k] = [pc |-> "settled"]]
                /\ stats' = [stats EXCEPT !.failed = @ + 1,
                                          !.failedIds = Append(@, s.task.trackId)]
                /\ UNCHANGED updates
    /\ UNCHANGED <<importVars, pc, dryRun, exitCode, ioError, catalog, limitCount,
                   startAfter, query, docs, mI, processed, lastDocId, hasMore,
                   scanned>>

\* lines 270-277: doc.ref.update succeeded
MigUpdate(k) ==
    /\ pc = "migChunk"
    /\ k \in DOMAIN tasks
    /\ tasks[k].pc = "update"
    /\ catalog' = [catalog EXCEPT ![tasks[k].trackId] = updateFields(tasks[k].result) @@ @]
    /\ stats' = [stats EXCEPT !.migrated = @ + 1]
    /\ tasks' = [tasks EXCEPT ![k] = [pc |-> "settled"]]
    /\ UNCHANGED <<importVars, pc, dryRun, exitCode, ioError, bucket, limitCount,
                   startAfter, query, docs, mI, processed, lastDocId, hasMore,
                   scanned, updates>>

\* line 270: doc.ref.update rejects: the closure's promise rejects and
\* Promise.allSettled (line 241) takes it as settled
MigUpdateFail(k) ==
    /\ pc = "migChunk"
    /\ k \in DOMAIN tasks
    /\ tasks[k].pc = "update"
    /\ tasks' = [tasks EXCEPT ![k] = [pc |-> "settled"]]
    /\ UNCHANGED <<importVars, pc, dryRun, exitCode, ioError, bucket, catalog, migVars>>

\* lines 241 and 285-295: Promise.allSettled of the chunk has settled
MigChunkDone ==
    /\ pc = "migChunk"
    /\ \A k \in DOMAIN tasks : tasks[k].pc = "settled"
    /\ processed' = processed + Cardinality(inChunk(docs, mI))
    /\ mI' = mI + CONCURRENCY
    /\ LET r == loopStep(docs, mI', processed', stats, scanned)
       IN /\ pc' = r.pc
          /\ stats' = r.stats
          /\ tasks' = r.tasks
          /\ scanned' = r.scanned
          /\ lastDocId' = r.lastDocId
          /\ query' = r.query
          /\ exitCode' = IF r.pc = "done" THEN {0} ELSE exitCode
    /\ UNCHANGED <<importVars, dryRun, ioError, bucket, catalog, limitCount,
                   startAfter, docs, hasMore, updates>>

MigrateNext ==
    \/ MigStart
    \/ MigResume
    \/ MigResumeFail
    \/ MigQuery
    \/ MigQueryFail
    \/ \E k \in DOMAIN tasks : MigTaskStep(k)
    \/ \E k \in DOMAIN tasks : MigUpdate(k)
    \/ \E k \in DOMAIN tasks : MigUpdateFail(k)
    \/ MigChunkDone

----------------------------------------------------------------------------
(* The migration pass: inputs and specification *)

MaxDocs == 4           \* most documents of a small tracks collection
MaxMixed == 2          \* most documents to migrate of a mixed small collection
MaxLimit == 2          \* largest LIMIT given to a pass over a small collection

\* a document of another source's track: its audio is not a Jamendo URL
FOREIGN == <<"i", "a">>
foreignDoc(n) ==
    [addedAt |-> "earlier", id |-> FOREIGN \o <<"-">> \o decimal(n),
     title |-> <<"T">> \o decimal(n),
     audioUrl |-> HTTP \o <<":">> \o FOREIGN \o <<"/", "a">> \o decimal(n),
     artwork |-> <<>>]

\* a document a run of the importer or an earlier pass has migrated
migratedDoc(n) == [addedAt |-> "earlier"] @@ transferred(harvested(n))

docOfKind(kind, n) ==
    CASE kind = "eligible" -> earlier(n)
      [] kind = "bare" -> [earlier(n) EXCEPT !.artwork = <<>>]
      [] kind = "migrated" -> migratedDoc(n)
      [] OTHER -> foreignDoc(n)

\* the collection whose n-th document is of kind kinds[n]
collection(kinds) ==
    LET key(n) == docOfKind(kinds[n], n).id
    IN [id \in {key(n) : n \in DOMAIN kinds} |->
          LET n == CHOOSE m \in DOMAIN kinds : key(m) = id
          IN docOfKind(kinds[n], n)]

\* small collections: the documents to migrate come first, before migrated
\* ones; or last, after documents of another source; or the first has no artwork
SmallKinds ==
    LET sizes(maxDocs, maxEligible) ==
            {x \in (0..maxDocs) \X (0..maxEligible) : x[2] <= x[1]}
    IN UNION {{[n \in 1..x[1] |-> IF n <= x[2] THEN "eligible" ELSE "migrated"]} :
                 x \in sizes(MaxDocs, MaxDocs)}
       \cup UNION {{[n \in 1..x[1] |-> IF n > x[1] - x[2] THEN "eligible" ELSE "foreign"]} :
                 x \in sizes(MaxDocs, MaxMixed)}
       \cup UNION {{[n \in 1..x[1] |-> IF n = 1 THEN "bare"
                                      ELSE IF n <= x[2] THEN "eligible" ELSE "migrated"]} :
                 x \in sizes(MaxMixed, MaxMixed)}

\* collections of one page and of one page and one document
PagedKinds ==
    {[n \in 1..m |-> IF n \in {m - 1, m} THEN "eligible" ELSE "migrated"] :
        m \in {PAGE_SIZE, PAGE_SIZE + 1}}

MigCollections == {collection(kinds) : kinds \in SmallKinds \cup PagedKinds}

\* the values of LIMIT
LimitEnvs ==
    {<<>>, <<"x">>, <<"-", "1">>} \cup {decimal(n) : n \in 0..MaxLimit}

\* the values of START_AFTER: unset, the id of a document, an id of no document
StartAfters(cat) ==
    {<<>>, <<"z">>}
    \cup {id \in DOMAIN cat : id = jamendoId(2)}

MigrateInit ==
    /\ PureIdle
    /\ pc = "migStart"
    /\ dryRun \in BOOLEAN
    /\ results = <<>>
    /\ allTracks = <<>> /\ allStats = <<>>
    /\ ids = <<>> /\ dedupI = 0 /\ existing = {} /\ lookups = <<>>
    /\ newTracks = <<>>
    /\ upI = 0 /\ tasks = EmptyMap /\ uploaded = 0 /\ kept = 0
    /\ mediaResults = EmptyMap
    /\ bucket = EmptyMap
    /\ wI = 0 /\ commits = <<>>
    /\ catalog \in MigCollections
    /\ catalog0 = catalog
    /\ exitCode = {}
    /\ ioError = "none"
    /\ limitCount \in {limitOf(env) : env \in LimitEnvs}
    /\ startAfter \in StartAfters(catalog)
    /\ query = {}
    /\ docs = <<>> /\ mI = 0 /\ processed = 0 /\ stats = NoStats
    /\ lastDocId = <<>> /\ hasMore = TRUE /\ scanned = <<>> /\ updates = <<>>
    /\ AdapterIdle

SpecMigrate == MigrateInit /\ [][MigrateNext]_vars

\* a run of either program
SpecPipeline == (ImportInit \/ MigrateInit) /\ [][ImportNext \/ MigrateNext]_vars

\* C9: at every moment of an import run and of a migration pass, at most 3
\* uploadTrackMedia calls have started and not yet returned, whatever the
\* number of tracks and whatever the order in which the calls complete.
C9_AtMostThreeInFlight ==
    /\ Cardinality(InFlight) <= 3
    /\ pc = "upload" => InFlight \subseteq (upI + 1)..(upI + 3)
    /\ pc = "migChunk" => InFlight \subseteq (mI + 1)..(mI + 3)

\* a pass over four documents to migrate: three transfers are in flight, the
\* third ahead of the first, and the fourth document is still to come
C9_Witness ==
    /\ pc = "migChunk"
    /\ Len(docs) > 3
    /\ Cardinality(InFlight) = 3
    /\ DOMAIN tasks = {1, 2, 3}
    /\ tasks[3].pc = "artSave"
    /\ tasks[1].pc = "audioFetch"
    /\ Len(scanned) = 3

----------------------------------------------------------------------------
(* utils.ts: sanitizeTrack *)

UPPER == <<"A", "B", "C", "D", "E", "F", "G", "H", "I", "J", "K", "L", "M",
           "N", "O", "P", "Q", "R", "S", "T", "U", "V", "W", "X", "Y", "Z">>
LOWER == <<"a", "b", "c", "d", "e", "f", "g", "h", "i", "j", "k", "l", "m",
           "n", "o", "p", "q", "r", "s", "t", "u", "v", "w", "x", "y", "z">>

\* String.prototype.toLowerCase, on the characters the model's strings hold
toLowerCase(s) ==
    [i \in 1..Len(s) |->
        IF \E k \in 1..26 : UPPER[k] = s[i]
        THEN LOWER[CHOOSE k \in 1..26 : UPPER[k] = s[i]]
        ELSE s[i]]

\* String.prototype.endsWith
endsWith(s, suffix) ==
    /\ Len(s) >= Len(suffix)
    /\ SubSeq(s, Len(s) - Len(suffix) + 1, Len(s)) = suffix

UNKNOWN_TITLE == <<"U", "n", "k", "n", "o", "w", "n", " ", "T", "i", "t", "l", "e">>
UnknownTitleLower == <<"u", "n", "k", "n", "o", "w", "n", " ", "t", "i", "t", "l", "e">>
UNKNOWN_ARTIST == <<"U", "n", "k", "n", "o", "w", "n", " ", "A", "r", "t", "i", "s", "t">>
SINGLES == <<"S", "i", "n", "g", "l", "e", "s">>
PLACEHOLDER == <<"h", "t", "t", "p", "s", ":", "/", "/", "v", "i", "a", ".", "p", "l", "a", "c", "e", "h", "o", "l", "d", "e", "r", ".", "c", "o", "m", "/", "3", "0", "0", "x", "3", "0", "0", ".", "p", "n", "g", "?", "t", "e", "x", "t", "=", "N", "o", "+", "C", "o", "v", "e", "r">>
OTHER_GENRE == <<"O", "t", "h", "e", "r">>
CREATIVE_COMMONS == <<"C", "r", "e", "a", "t", "i", "v", "e", " ", "C", "o", "m", "m", "o", "n", "s">>
SYSTEM_IMPORT == <<"s", "y", "s", "t", "e", "m", "-", "i", "m", "p", "o", "r", "t">>
SPOTFLY_BOT == <<"S", "p", "o", "t", "f", "l", "y", " ", "B", "o", "t">>

\* partial[name] || default for a string field: an absent field and '' are falsy
orElse(partial, name, default) ==
    IF name \in DOMAIN partial /\ ~Falsy(partial[name]) THEN partial[name] ELSE default

\* partial[name] || default for a number field: an absent field and 0 are falsy
numberOrElse(partial, name, default) ==
    IF name \in DOMAIN partial /\ partial[name] # 0 THEN partial[name] ELSE default

sanitizeTrackLowerOfDefault(partial) ==
    [id |-> partial.id,
     title |-> orElse(partial, "title", UNKNOWN_TITLE),
     artist |-> orElse(partial, "artist", UNKNOWN_ARTIST),
     artistId |-> orElse(partial, "artistId", <<>>),
     album |-> orElse(partial, "album", SINGLES),
     albumId |-> orElse(partial, "albumId", <<>>),
     duration |-> numberOrElse(partial, "duration", 0),
     artwork |-> orElse(partial, "artwork", PLACEHOLDER),
     audioUrl |-> partial.audioUrl,
     isLocal |-> FALSE,
     genre |-> orElse(partial, "genre", OTHER_GENRE),
     license |-> orElse(partial, "license", CREATIVE_COMMONS),
     uploadedBy |-> SYSTEM_IMPORT,
     uploadedByName |-> SPOTFLY_BOT,
     titleLower |-> toLowerCase(orElse(partial, "title", UNKNOWN_ARTIST))]

\* sanitizeTrack, lines 7-29
sanitizeTrack(partial) ==
    [id |-> partial.id,
     title |-> orElse(partial, "title", UNKNOWN_TITLE),
     artist |-> orElse(partial, "artist", UNKNOWN_ARTIST),
     artistId |-> orElse(partial, "artistId", <<>>),
     album |-> orElse(partial, "album", SINGLES),
     albumId |-> orElse(partial, "albumId", <<>>),
     duration |-> numberOrElse(partial, "duration", 0),
     artwork |-> orElse(partial, "artwork", PLACEHOLDER),
     audioUrl |-> partial.audioUrl,
     isLocal |-> FALSE,
     genre |-> orElse(partial, "genre", OTHER_GENRE),
     license |-> orElse(partial, "license", CREATIVE_COMMONS),
     uploadedBy |-> SYSTEM_IMPORT,
     uploadedByName |-> SPOTFLY_BOT,
     titleLower |-> toLowerCase(orElse(partial, "title", UnknownTitleLower))]

MaxTitleLen == 3       \* longest title given to sanitizeTrack

\* what sanitizeTrack is given: id and audioUrl, and the other fields or not
SanitizeInputs ==
    LET required == [id : {jamendoId(1)}, audioUrl : {harvested(1).audioUrl}]
        titles == {[title |-> t] : t \in Strings({"A", "b", " "}, MaxTitleLen)}
                  \cup {EmptyMap}
        artists == {[artist |-> <<"Z", "e">>], [artist |-> <<>>], EmptyMap}
        durations == {[duration |-> 0], [duration |-> 7]}
    IN {r @@ t @@ a @@ d : r \in required, t \in titles, a \in artists,
                            d \in durations}

SanitizeInit ==
    /\ fn = "sanitizeTrack"
    /\ arg \in SanitizeInputs
    /\ ret = <<>>
    /\ pc = "call"
    /\ ImportIdle

\* sanitizeTrack(arg) is called and returns
CallSanitizeTrack ==
    /\ fn = "sanitizeTrack"
    /\ pc = "call"
    /\ ret' = sanitizeTrack(arg)
    /\ pc' = "returned"
    /\ UNCHANGED <<fn, arg, dryRun, results, allTracks, allStats, newTracks,
                   exitCode, ioError, dedupVars, uploadVars, writeVars>>
    /\ UNCHANGED <<migVars, adapterVars>>

SpecSanitize == SanitizeInit /\ [][CallSanitizeTrack]_vars

\* C19: for every input of sanitizeTrack, with its title present, empty or
\* absent, the result's titleLower is the result's title with every upper-case
\* letter replaced by its lower-case letter and every other character kept.
C19_TitleLower ==
    (fn = "sanitizeTrack" /\ pc = "returned") =>
        /\ Len(ret.titleLower) = Len(ret.title)
        /\ \A i \in 1..Len(ret.title) :
              IF \E k \in 1..26 : UPPER[k] = ret.title[i]
              THEN \E k \in 1..26 : /\ UPPER[k] = ret.title[i]
                                    /\ LOWER[k] = ret.titleLower[i]
              ELSE ret.titleLower[i] = ret.title[i]

\* a record without title got the default title and its lower case
C19_Witness ==
    /\ fn = "sanitizeTrack" /\ pc = "returned"
    /\ "title" \notin DOMAIN arg
    /\ ret.title = UNKNOWN_TITLE
    /\ ret.titleLower = UnknownTitleLower

----------------------------------------------------------------------------
(* The internet-archive source adapter, fetchInternetArchive *)

IA_SOURCE == <<"i", "n", "t", "e", "r", "n", "e", "t", "-", "a", "r", "c", "h", "i", "v", "e">>
METADATA_URL == <<"h", "t", "t", "p", "s", ":", "/", "/", "a", "r", "c", "h", "i", "v", "e", ".", "o", "r", "g", "/", "m", "e", "t", "a", "d", "a", "t", "a">>
DOWNLOAD_URL == <<"h", "t", "t", "p", "s", ":", "/", "/", "a", "r", "c", "h", "i", "v", "e", ".", "o", "r", "g", "/", "d", "o", "w", "n", "l", "o", "a", "d">>
IMG_URL == <<"h", "t", "t", "p", "s", ":", "/", "/", "a", "r", "c", "h", "i", "v", "e", ".", "o", "r", "g", "/", "s", "e", "r", "v", "i", "c", "e", "s", "/", "i", "m", "g", "/">>
INTERNET_ARCHIVE == <<"I", "n", "t", "e", "r", "n", "e", "t", " ", "A", "r", "c", "h", "i", "v", "e">>

MP3_FORMAT == <<"m", "p", "3">>

AUDIO_EXTENSIONS == {<<".", "m", "p", "3">>, <<".", "o", "g", "g">>, <<".", "f", "l", "a", "c">>}

SEARCH_QUERIES ==
    <<"mediatype:audio AND licenseurl:*creativecommons* AND format:mp3",
      "mediatype:audio AND collection:opensource_audio AND format:mp3",
      "mediatype:audio AND licenseurl:*publicdomain* AND format:mp3",
      "mediatype:audio AND collection:audio_music AND format:mp3",
      "mediatype:audio AND licenseurl:*creativecommons* AND subject:rock AND format:mp3",
      "mediatype:audio AND licenseurl:*creativecommons* AND subject:electronic AND format:mp3",
      "mediatype:audio AND licenseurl:*creativecommons* AND subject:jazz AND format:mp3",
      "mediatype:audio AND licenseurl:*creativecommons* AND subject:classical AND format:mp3",
      "mediatype:audio AND licenseurl:*creativecommons* AND subject:folk AND format:mp3",
      "mediatype:audio AND licenseurl:*creativecommons* AND subject:ambient AND format:mp3">>

SORT_OPTIONS == <<"addeddate desc", "downloads desc", "date desc", "createdate desc">>

queriesToRun == 3
ROWS_PER_QUERY == 100
MAX_ITEMS_PER_QUERY == 50

Undefined == [kind |-> "undefined"]

\* state.name, undefined when the cursor has no such field
cursorField(st, name) == IF name \in DOMAIN st THEN st[name] ELSE Undefined

\* JavaScript's a + n and a % m for a number n, m: NaN unless a is a number
plus(a, n) == IF a.kind = "number" THEN Number(a.n + n) ELSE NaN
modulo(a, m) == IF a.kind = "number" THEN Number(a.n % m) ELSE NaN

\* arr[i]: the element in a set, the empty set for undefined
elementAt(arr, i) ==
    IF i.kind = "number" /\ i.n \in 0..(Len(arr) - 1) THEN {arr[i.n + 1]} ELSE {}

\* Math.floor(pageOffset / ROWS_PER_QUERY) + 1
pageNumber(pageOffset) ==
    IF pageOffset.kind = "number" THEN Number((pageOffset.n \div ROWS_PER_QUERY) + 1)
    ELSE NaN

\* name.replace(/\.[^/.]+$/, ''): the name without its extension
withoutExtension(name) ==
    LET dots == {i \in 1..Len(name) : name[i] = "."}
        last == CHOOSE i \in dots : \A j \in dots : j <= i
    IN IF dots # {} /\ last < Len(name)
          /\ \A j \in (last + 1)..Len(name) : name[j] # "/"
       THEN SubSeq(name, 1, last - 1)
       ELSE name

isAlphanumeric(c) ==
    \/ \E k \in 1..26 : c = UPPER[k] \/ c = LOWER[k]
    \/ isDigit(c)

\* sanitizeFilename, lines 208-213
sanitizeFilename(name) ==
    LET base == withoutExtension(name)
        dashed == [i \in 1..Len(base) |->
                     IF isAlphanumeric(base[i]) \/ base[i] = "-" THEN base[i] ELSE "-"]
    IN SubSeq(dashed, 1, Min(60, Len(dashed)))

\* s.replace(/\s+/g, ' '): every run of blanks becomes one blank
RECURSIVE collapseBlanks(_)
collapseBlanks(s) ==
    IF Len(s) < 2 THEN s
    ELSE IF s[1] = " " /\ s[2] = " " THEN collapseBlanks(Tail(s))
    ELSE <<s[1]>> \o collapseBlanks(Tail(s))

\* String.prototype.trim, on a string whose runs of blanks are single blanks
trim(s) ==
    LET from == IF s # <<>> /\ s[1] = " " THEN 2 ELSE 1
        to == IF s # <<>> /\ s[Len(s)] = " " THEN Len(s) - 1 ELSE Len(s)
    IN SubSeq(s, from, to)

\* cleanTitle, lines 200-206
cleanTitle(filename) ==
    LET base == withoutExtension(filename)
        spaced == [i \in 1..Len(base) |-> IF base[i] \in {"_", "-"} THEN " " ELSE base[i]]
    IN trim(collapseBlanks(spaced))

\* lines 132-140: the files with an audio extension that are originals or mp3
audioFilesOf(files) ==
    SelectSeq(SelectSeq(files,
                LAMBDA f : \E ext \in AUDIO_EXTENSIONS : endsWith(toLowerCase(f.name), ext)),
              LAMBDA f : \/ f.source = "original"
                         \/ /\ "format" \in DOMAIN f
                            /\ includes(toLowerCase(f.format), MP3_FORMAT))

\* line 150: file.length ? Math.round(parseFloat(file.length)) : 0, for a
\* length of digits; a length that is no number gives NaN
durationOf(file) ==
    IF "length" \notin DOMAIN file \/ Falsy(file.length) THEN Number(0)
    ELSE IF digitPrefix(file.length) = <<>> THEN NaN
    ELSE Number(digitsValue(digitPrefix(file.length)))

\* lines 151-152: the id of the track of a file of an item
safeId(identifier, file) ==
    LET trackId == FOREIGN \o <<"-">> \o identifier \o <<"-">> \o sanitizeFilename(file.name)
    IN IF Len(trackId) > 128 THEN SubSeq(trackId, 1, 128) ELSE trackId

\* String.prototype.split(sep) for a separator of one character
RECURSIVE split(_, _)
split(s, sep) ==
    LET at == {i \in 1..Len(s) : s[i] = sep}
        first == CHOOSE i \in at : \A j \in at : i <= j
    IN IF at = {} THEN <<s>>
       ELSE <<SubSeq(s, 1, first - 1)>> \o split(SubSeq(s, first + 1, Len(s)), sep)

RECURSIVE trimEnd(_)
trimEnd(s) == IF s # <<>> /\ s[Len(s)] = " " THEN trimEnd(SubSeq(s, 1, Len(s) - 1)) ELSE s

genreMap ==
    <<<<<<"r", "o", "c", "k">>,
        <<"R", "o", "c", "k">>>>,
      <<<<"e", "l", "e", "c", "t", "r", "o", "n", "i", "c">>,
        <<"E", "l", "e", "c", "t", "r", "o", "n", "i", "c">>>>,
      <<<<"j", "a", "z", "z">>,
        <<"J", "a", "z", "z">>>>,
      <<<<"c", "l", "a", "s", "s", "i", "c", "a", "l">>,
        <<"C", "l", "a", "s", "s", "i", "c", "a", "l">>>>,
      <<<<"f", "o", "l", "k">>,
        <<"F", "o", "l", "k">>>>,
      <<<<"a", "m", "b", "i", "e", "n", "t">>,
        <<"A", "m", "b", "i", "e", "n", "t">>>>,
      <<<<"p", "o", "p">>,
        <<"P", "o", "p">>>>,
      <<<<"i", "n", "d", "i", "e">>,
        <<"I", "n", "d", "i", "e">>>>,
      <<<<"e", "x", "p", "e", "r", "i", "m", "e", "n", "t", "a", "l">>,
        <<"E", "x", "p", "e", "r", "i", "m", "e", "n", "t", "a", "l">>>>,
      <<<<"w", "o", "r", "l", "d">>,
        <<"W", "o", "r", "l", "d">>>>,
      <<<<"p", "i", "a", "n", "o">>,
        <<"P", "i", "a", "n", "o">>>>,
      <<<<"m", "e", "t", "a", "l">>,
        <<"M", "e", "t", "a", "l">>>>,
      <<<<"h", "i", "p", "h", "o", "p">>,
        <<"H", "i", "p", " ", "H", "o", "p">>>>,
      <<<<"h", "i", "p", "-", "h", "o", "p">>,
        <<"H", "i", "p", " ", "H", "o", "p">>>>,
      <<<<"b", "l", "u", "e", "s">>,
        <<"B", "l", "u", "e", "s">>>>,
      <<<<"c", "o", "u", "n", "t", "r", "y">>,
        <<"C", "o", "u", "n", "t", "r", "y">>>>,
      <<<<"r", "e", "g", "g", "a", "e">>,
        <<"R", "e", "g", "g", "a", "e">>>>,
      <<<<"s", "o", "u", "l">>,
        <<"S", "o", "u", "l">>>>>>

\* extractGenre, lines 215-235, for a subject that is absent or a string: the
\* genre of the first tag that includes a key of genreMap, by the first such key
extractGenre(doc) ==
    IF "subject" \notin DOMAIN doc \/ Falsy(doc.subject) THEN OTHER_GENRE
    ELSE LET parts == split(doc.subject, ";")
             tags == [i \in 1..Len(parts) |-> toLowerCase(trimEnd(trimStart(parts[i])))]
             hits == {h \in (1..Len(tags)) \X (1..Len(genreMap)) :
                         includes(tags[h[1]], genreMap[h[2]][1])}
             first == CHOOSE h \in hits : \A g \in hits :
                         h[1] < g[1] \/ (h[1] = g[1] /\ h[2] <= g[2])
         IN IF hits = {} THEN OTHER_GENRE ELSE genreMap[first[2]][2]

\* lines 144-169: the record pushed for a file of an item
trackOf(doc, meta, file) ==
    sanitizeTrack(
        [id |-> safeId(doc.identifier, file),
         title |-> cleanTitle(file.name),
         artist |-> orElse(meta.metadata, "creator", orElse(doc, "creator", UNKNOWN_ARTIST)),
         album |-> orElse(doc, "title", INTERNET_ARCHIVE),
         duration |-> IF durationOf(file).kind = "number" THEN durationOf(file).n ELSE 0,
         artwork |-> IMG_URL \o doc.identifier,
         audioUrl |-> DOWNLOAD_URL \o <<"/">> \o doc.identifier \o <<"/">>
                      \o encodeURIComponent(file.name),
         genre |-> extractGenre(doc),
         license |-> orElse(meta.metadata, "licenseurl",
                            orElse(doc, "licenseurl", CREATIVE_COMMONS))])

\* lines 149-170: the files of an item pushed in order, each id once
RECURSIVE pushFiles(_, _, _, _, _)
pushFiles(doc, meta, files, ts, sn) ==
    IF files = <<>> THEN [tracks |-> ts, seen |-> sn]
    ELSE LET id == safeId(doc.identifier, Head(files))
         IN IF id \in sn THEN pushFiles(doc, meta, Tail(files), ts, sn)
            ELSE pushFiles(doc, meta, Tail(files),
                           Append(ts, trackOf(doc, meta, Head(files))), sn \cup {id})

MaxItems == 2          \* most items the searches of one run return in all

\* the items a search lists
searchDoc(n) == [identifier |-> <<"x">> \o decimal(n), title |-> <<"L">> \o decimal(n)]

\* what a search answers with: at most n items, the same item twice or not;
\* a body without response.docs counts as an empty listing (line 115)
SearchDocs(n) ==
    {found \in SeqsUpTo({searchDoc(1), searchDoc(2)}, n) :
        found # <<>> => found[1] = searchDoc(1)}

\* the files of an item: an original mp3, a derivative whose name gives the
\* same id, a text file, a derivative that is no mp3
ORIGINAL_MP3 == [name |-> <<"a", "_", "b", ".", "m", "p", "3">>, format |-> <<"V", "B", "R", " ", "M", "P", "3">>, source |-> "original",
                 length |-> <<"1", "2">>]
DERIVED_MP3 == [name |-> <<"a", "-", "b", ".", "M", "P", "3">>, format |-> <<"V", "B", "R", " ", "M", "P", "3">>, source |-> "derivative"]
TEXT_FILE == [name |-> <<"c", ".", "t", "x", "t">>, format |-> <<"T", "e", "x", "t">>, source |-> "original"]
DERIVED_OGG == [name |-> <<"d", ".", "o", "g", "g">>, format |-> <<"O", "g", "g", " ", "V", "o", "r", "b", "i", "s">>, source |-> "derivative"]

\* what a metadata request answers with: well-shaped bodies, and bodies that
\* lack files or metadata
MetaBodies(doc) ==
    LET metadata == [identifier |-> doc.identifier, title |-> doc.title,
                     creator |-> <<"Z", "e">>]
    IN {[metadata |-> metadata, files |-> fs] :
           fs \in {<<>>, <<TEXT_FILE, DERIVED_OGG>>, <<ORIGINAL_MP3>>,
                   <<ORIGINAL_MP3, TEXT_FILE, DERIVED_MP3>>}}
       \cup {[metadata |-> metadata], [files |-> <<ORIGINAL_MP3>>]}

\* lines 90-107 and 180-197: the query loop runs from q = qq to its next await,
\* a search request or the save of the cursor, or to the return
RECURSIVE runQueries(_, _, _)
runQueries(st, qq, errs) ==
    IF qq >= queriesToRun
    THEN [pc |-> IF hasDb THEN "iaSave" ELSE "returned",
          q |-> qq, errors |-> errs, requests |-> <<>>]
    ELSE LET searchQuery == elementAt(SEARCH_QUERIES,
                                modulo(plus(cursorField(st, "queryIndex"), qq),
                                       Len(SEARCH_QUERIES)))
             sort == elementAt(SORT_OPTIONS,
                               modulo(plus(cursorField(st, "sortIndex"), qq),
                                      Len(SORT_OPTIONS)))
             pageOffset == IF qq = 0 THEN cursorField(st, "pageOffset") ELSE Number(0)
         IN IF searchQuery = {}
            \* line 106: query.substring throws for an undefined query; line 176
            THEN runQueries(st, qq + 1, Append(errs, <<"Query error", qq + 1>>))
            ELSE [pc |-> "iaSearch", q |-> qq, errors |-> errs,
                  requests |-> <<[kind |-> "search", q |-> qq, query |-> searchQuery,
                                  sort |-> sort, page |-> pageNumber(pageOffset)]>>]

\* the adapter goes on as r says; at its return the result is built from the
\* tracks ts and the errors
Continue(r, ts) ==
    /\ pc' = r.pc
    /\ queryI' = r.q
    /\ srcErrors' = r.errors
    /\ requests' = requests \o r.requests
    /\ ret' = IF r.pc = "returned"
              THEN [sourceName |-> IA_SOURCE, tracks |-> ts, errors |-> r.errors]
              ELSE ret

\* lines 120-174: the item loop goes on to the next item or ends
nextItem(errs, ts) ==
    IF item < Len(itemsToProcess)
    THEN /\ item' = item + 1
         /\ Continue([pc |-> "iaSleep", q |-> queryI, errors |-> errs, requests |-> <<>>], ts)
    ELSE /\ item' = item
         /\ Continue(runQueries(state, queryI + 1, errs), ts)

otherVars == <<dryRun, results, allTracks, allStats, newTracks, exitCode, ioError,
               dedupVars, uploadVars, writeVars, migVars, pageI, clientId,
               pastRequests, runsLeft>>

\* lines 67-107: the call runs to its first await
IaCall ==
    /\ fn = "fetchInternetArchive" /\ pc = "iaCall"
    /\ IF hasDb
       THEN /\ pc' = "iaLoad"
            /\ UNCHANGED <<queryI, srcErrors, requests, ret>>
       ELSE Continue(runQueries(state, 0, srcErrors), srcTracks)
    /\ UNCHANGED <<fn, arg, otherVars, listings, hasDb, stateDoc, stateLoad, state,
                   itemsToProcess, item, srcTracks, seen, stateWrites>>

\* lines 78-79: the cursor document was read
IaLoad ==
    /\ fn = "fetchInternetArchive" /\ pc = "iaLoad"
    /\ state' = IF stateDoc # {} THEN CHOOSE data \in stateDoc : TRUE ELSE state
    /\ stateLoad' = IF stateDoc # {} THEN "read" ELSE "missing"
    /\ Continue(runQueries(state', 0, srcErrors), srcTracks)
    /\ UNCHANGED <<fn, arg, otherVars, listings, hasDb, stateDoc, itemsToProcess, item,
                   srcTracks, seen, stateWrites>>

\* lines 78-82: reading the cursor document throws
IaLoadFail ==
    /\ fn = "fetchInternetArchive" /\ pc = "iaLoad"
    /\ stateLoad' = "threw"
    /\ Continue(runQueries(state, 0, srcErrors), srcTracks)
    /\ UNCHANGED <<fn, arg, otherVars, listings, hasDb, stateDoc, state, itemsToProcess, item,
                   srcTracks, seen, stateWrites>>

\* lines 107-112 and 175-177: the search request answered, or threw
IaSearch ==
    /\ fn = "fetchInternetArchive" /\ pc = "iaSearch"
    /\ \E o \in {"ok", "http-error", "network-error"} :
         CASE o = "ok" ->
                Continue([pc |-> "iaSearchJson", q |-> queryI, errors |-> srcErrors,
                          requests |-> <<>>], srcTracks)
           [] o = "http-error" ->
                Continue(runQueries(state, queryI + 1,
                                    Append(srcErrors, <<"Search HTTP", queryI + 1>>)), srcTracks)
           [] OTHER ->
                Continue(runQueries(state, queryI + 1,
                                    Append(srcErrors, <<"Query error", queryI + 1>>)), srcTracks)
    /\ UNCHANGED <<fn, arg, otherVars, listings, hasDb, stateDoc, stateLoad, state,
                   itemsToProcess, item, srcTracks, seen, stateWrites>>

\* the metadata requests issued so far in the run
metadataRequests == Cardinality({i \in 1..Len(requests) : requests[i].kind = "metadata"})

\* lines 114-122: the body of the search response was read, or could not be
IaSearchJson ==
    /\ fn = "fetchInternetArchive" /\ pc = "iaSearchJson"
    /\ \/ /\ Continue(runQueries(state, queryI + 1,
                                 Append(srcErrors, <<"Query error", queryI + 1>>)), srcTracks)
          /\ UNCHANGED <<itemsToProcess, item, listings>>
       \/ \E found \in SearchDocs(MaxItems - metadataRequests) :
            /\ itemsToProcess' = slice(found, 0, MAX_ITEMS_PER_QUERY)
            /\ listings' = Append(listings, [q |-> queryI, items |-> itemsToProcess'])
            /\ IF itemsToProcess' = <<>>
               THEN /\ item' = 0
                    /\ Continue(runQueries(state, queryI + 1, srcErrors), srcTracks)
               ELSE /\ item' = 1
                    /\ Continue([pc |-> "iaSleep", q |-> queryI, errors |-> srcErrors,
                                 requests |-> <<>>], srcTracks)
    /\ UNCHANGED <<fn, arg, otherVars, hasDb, stateDoc, stateLoad, state,
                   srcTracks, seen, stateWrites>>

\* lines 122-124: sleep(300) is over; the metadata of the item is requested
IaSleep ==
    /\ fn = "fetchInternetArchive" /\ pc = "iaSleep"
    /\ Continue([pc |-> "iaMeta", q |-> queryI, errors |-> srcErrors,
                 requests |-> <<[kind |-> "metadata",
                                 identifier |-> itemsToProcess[item].identifier]>>], srcTracks)
    /\ UNCHANGED <<fn, arg, otherVars, listings, hasDb, stateDoc, stateLoad, state,
                   itemsToProcess, item, srcTracks, seen, stateWrites>>

\* lines 124-128 and 171-173: the metadata request answered, or threw
IaMeta ==
    /\ fn = "fetchInternetArchive" /\ pc = "iaMeta"
    /\ \E o \in {"ok", "http-error", "network-error"} :
         CASE o = "ok" ->
                /\ item' = item
                /\ Continue([pc |-> "iaMetaJson", q |-> queryI, errors |-> srcErrors,
                             requests |-> <<>>], srcTracks)
           [] o = "http-error" ->
                nextItem(Append(srcErrors,
                                <<"Metadata HTTP", itemsToProcess[item].identifier>>), srcTracks)
           [] OTHER ->
                nextItem(Append(srcErrors, <<"Item", itemsToProcess[item].identifier>>), srcTracks)
    /\ UNCHANGED <<fn, arg, otherVars, listings, hasDb, stateDoc, stateLoad, state,
                   itemsToProcess, srcTracks, seen, stateWrites>>

\* lines 130-173: the body of the metadata response was read, or could not be
IaMetaJson ==
    /\ fn = "fetchInternetArchive" /\ pc = "iaMetaJson"
    /\ LET doc == itemsToProcess[item]
           failed == Append(srcErrors, <<"Item", doc.identifier>>)
       IN \/ /\ nextItem(failed, srcTracks)
             /\ UNCHANGED <<srcTracks, seen>>
          \/ \E meta \in MetaBodies(doc) :
               IF "files" \notin DOMAIN meta
               THEN /\ UNCHANGED <<srcTracks, seen>>
                    /\ nextItem(failed, srcTracks)
               ELSE IF audioFilesOf(meta.files) = <<>>
               THEN /\ UNCHANGED <<srcTracks, seen>>
                    /\ nextItem(srcErrors, srcTracks)
               ELSE IF "metadata" \notin DOMAIN meta
               THEN /\ UNCHANGED <<srcTracks, seen>>
                    /\ nextItem(failed, srcTracks)
               ELSE LET pushed == pushFiles(doc, meta, audioFilesOf(meta.files),
                                            srcTracks, seen)
                    IN /\ srcTracks' = pushed.tracks
                       /\ seen' = pushed.seen
                       /\ nextItem(srcErrors, pushed.tracks)
    /\ UNCHANGED <<fn, arg, otherVars, listings, hasDb, stateDoc, stateLoad, state,
                   itemsToProcess, stateWrites>>

newStateSameQueries(st) ==
    [queryIndex |-> modulo(cursorField(st, "queryIndex"), Len(SEARCH_QUERIES)),
     sortIndex |-> modulo(plus(cursorField(st, "sortIndex"), 1), Len(SORT_OPTIONS)),
     pageOffset |-> plus(cursorField(st, "pageOffset"), ROWS_PER_QUERY),
     lastRun |-> "now"]

\* lines 183-188: the cursor of the next run
newState(st) ==
    [queryIndex |-> modulo(plus(cursorField(st, "queryIndex"), queriesToRun),
                           Len(SEARCH_QUERIES)),
     sortIndex |-> modulo(plus(cursorField(st, "sortIndex"), 1), Len(SORT_OPTIONS)),
     pageOffset |-> plus(cursorField(st, "pageOffset"), ROWS_PER_QUERY),
     lastRun |-> "now"]

\* lines 189-197: the cursor was saved; the adapter returns
IaSave ==
    /\ fn = "fetchInternetArchive" /\ pc = "iaSave"
    /\ stateDoc' = {newState(state)}
    /\ stateWrites' = Append(stateWrites, newState(state))
    /\ Continue([pc |-> "returned", q |-> queryI, errors |-> srcErrors,
                 requests |-> <<>>], srcTracks)
    /\ UNCHANGED <<fn, arg, otherVars, listings, hasDb, stateLoad, state, itemsToProcess, item,
                   srcTracks, seen>>

\* lines 189-197: saving the cursor throws; the adapter returns
IaSaveFail ==
    /\ fn = "fetchInternetArchive" /\ pc = "iaSave"
    /\ Continue([pc |-> "returned", q |-> queryI, errors |-> srcErrors,
                 requests |-> <<>>], srcTracks)
    /\ UNCHANGED <<fn, arg, otherVars, listings, hasDb, stateDoc, stateLoad, state,
                   itemsToProcess, item, srcTracks, seen, stateWrites>>

ArchiveNext ==
    \/ IaCall
    \/ IaLoad
    \/ IaLoadFail
    \/ IaSearch
    \/ IaSearchJson
    \/ IaSleep
    \/ IaMeta
    \/ IaMetaJson
    \/ IaSave
    \/ IaSaveFail

\* the cursor documents a run finds: none, the initial one, a later one,
\* and documents that lack fields of a cursor
StateDocs ==
    {{}, {InitialCursor},
     {[queryIndex |-> Number(9), sortIndex |-> Number(3),
       pageOffset |-> Number(300), lastRun |-> "earlier"]},
     {[lastRun |-> "earlier"]},
     {[queryIndex |-> Number(3), sortIndex |-> Number(1), lastRun |-> "earlier"]}}

ArchiveInit ==
    /\ fn = "fetchInternetArchive" /\ arg = <<>> /\ ret = <<>>
    /\ pc = "iaCall"
    /\ dryRun \in BOOLEAN
    /\ results = <<>>
    /\ allTracks = <<>> /\ allStats = <<>>
    /\ ids = <<>> /\ dedupI = 0 /\ existing = {} /\ lookups = <<>>
    /\ newTracks = <<>>
    /\ upI = 0 /\ tasks = EmptyMap /\ uploaded = 0 /\ kept = 0
    /\ mediaResults = EmptyMap
    /\ bucket = EmptyMap
    /\ wI = 0 /\ commits = <<>>
    /\ catalog = EmptyMap
    /\ catalog0 = EmptyMap
    /\ exitCode = {}
    /\ ioError = "none"
    /\ MigIdle
    /\ hasDb \in BOOLEAN
    /\ stateDoc \in StateDocs
    /\ stateLoad = "none" /\ state = InitialCursor
    /\ queryI = 0 /\ itemsToProcess = <<>> /\ item = 0 /\ pageI = 0
    /\ srcTracks = <<>> /\ srcErrors = <<>> /\ seen = {} /\ requests = <<>>
    /\ stateWrites = <<>>
    /\ clientId = FALSE /\ listings = <<>>
    /\ pastRequests = {} /\ runsLeft = 0

SpecArchive == ArchiveInit /\ [][ArchiveNext]_vars

\* C11: with DRY_RUN=1 a run writes nothing that persists: no object is
\* uploaded, no catalog batch is committed, no catalog document is updated and
\* no source adapter sets the cursor document; the adapter's reads are still
\* performed.
C11_DryRunWritesNothing ==
    dryRun =>
        /\ bucket = EmptyMap
        /\ catalog = catalog0
        /\ commits = <<>>
        /\ updates = <<>>
        /\ stateWrites = <<>>
        /\ (fn = "fetchInternetArchive" /\ pc = "returned" /\ hasDb) => stateLoad # "none"

----------------------------------------------------------------------------
(* A migration pass followed by another *)

\* the script is run again, with the same environment, over the collection a
\* live pass has left with no document to migrate
MigAgain ==
    /\ pc = "done" /\ fn = "none" /\ results = <<>>
    /\ ~dryRun
    /\ catalog # catalog0
    /\ \A id \in DOMAIN catalog : disposition(catalog[id]) # "migrate"
    /\ pc' = "migStart"
    /\ exitCode' = {}
    /\ catalog0' = catalog
    /\ query' = {} /\ docs' = <<>> /\ mI' = 0 /\ processed' = 0 /\ stats' = NoStats
    /\ lastDocId' = <<>> /\ hasMore' = TRUE /\ scanned' = <<>> /\ updates' = <<>>
    /\ UNCHANGED <<pureVars, dryRun, results, allTracks, allStats, newTracks, ioError,
                   dedupVars, uploadVars, wI, commits, catalog, limitCount, startAfter,
                   adapterVars>>

SpecTwoPasses == MigrateInit /\ [][MigrateNext \/ MigAgain]_vars

\* a pass over the collection an earlier pass of the run has migrated
SecondPass == fn = "none" /\ results = <<>> /\ catalog0 \notin MigCollections

\* C12: a migration pass starts no transfer for, and issues no update of, a
\* document that has originalAudioUrl set when the pass starts; every scanned
\* document that is not to be migrated is counted as skipped; a document the pass
\* has updated has originalAudioUrl set; and a second pass over a collection a
\* first pass has migrated starts no transfer and issues no update.
C12_MigratedSkipped ==
    /\ \A k \in DOMAIN tasks :
          Falsy(field(catalog0[docs[k].id], "originalAudioUrl"))
    /\ \A i \in 1..Len(updates) :
          Falsy(field(catalog0[updates[i].id], "originalAudioUrl"))
    /\ stats.skipped =
          Cardinality({i \in 1..Len(scanned) :
                          disposition(catalog0[scanned[i]]) # "migrate"})
    /\ \A id \in DOMAIN catalog :
          catalog[id] # catalog0[id] => ~Falsy(field(catalog[id], "originalAudioUrl"))
    /\ SecondPass => /\ tasks = EmptyMap
                     /\ updates = <<>>
                     /\ stats.skipped = stats.total
                     /\ stats.migrated = 0 /\ stats.failed = 0

\* a second pass has scanned the three documents the first pass migrated and
\* has skipped them all
C12_Witness ==
    /\ SecondPass
    /\ pc = "done"
    /\ Len(scanned) >= 3
    /\ stats.skipped = Len(scanned)
    /\ \E id \in DOMAIN catalog0 :
          /\ audioPath(id) \in DOMAIN bucket
          /\ ~Falsy(field(catalog0[id], "originalAudioUrl"))

\* the elements of a sequence
Range(seq) == {seq[i] : i \in 1..Len(seq)}

\* C13: at the end of a live migration pass every scanned document is counted
\* in exactly one of migrated, skipped and failed, whatever the outcome of its
\* transfer and of its update: total = migrated + skipped + failed, and every
\* scanned document that was to be migrated and was not updated has its id in
\* failedIds.
C13_EveryItemAccounted ==
    (fn = "none" /\ results = <<>> /\ pc = "done" /\ ~dryRun) =>
        /\ stats.total = stats.migrated + stats.skipped + stats.failed
        /\ \A id \in Range(scanned) :
              (disposition(catalog0[id]) = "migrate" /\ catalog[id] = catalog0[id])
                  => id \in Range(stats.failedIds)

\* lines 207-222: the ids the pass has to go through, in the order of the query:
\* the whole collection, or what follows the START_AFTER document when it exists
remaining ==
    ascending({id \in DOMAIN catalog0 :
                  startAfter \in DOMAIN catalog0 => before(startAfter, id)})

\* a migration pass has reached its summary
PassDone == fn = "none" /\ results = <<>> /\ pc = "done"

\* C14: a pass run with LIMIT=n scans exactly the first min(n, remaining)
\* documents in id order, and so at most n.
C14_LimitCaps ==
    (PassDone /\ limitCount \in {Number(n) : n \in 0..MaxIds}) =>
        scanned = SubSeq(remaining, 1, Min(limitCount.n, Len(remaining)))

\* C15: a pass started with START_AFTER set to the id of an existing document
\* scans only documents whose id sorts strictly after that id, in ascending id
\* order, and with no limit it ends having scanned every such document.
C15_ResumeStrictlyAfter ==
    (fn = "none" /\ results = <<>> /\ startAfter \in DOMAIN catalog0) =>
        /\ \A i \in 1..Len(scanned) : before(startAfter, scanned[i])
        /\ \A i, j \in 1..Len(scanned) : i < j => before(scanned[i], scanned[j])
        /\ (PassDone /\ limitCount = Infinity) => scanned = remaining

\* a pass resumed after an existing document has ended with documents scanned
\* and documents left out
C15_Witness ==
    /\ PassDone
    /\ startAfter \in DOMAIN catalog0
    /\ limitCount = Infinity
    /\ Len(scanned) >= 2
    /\ Len(scanned) < Cardinality(DOMAIN catalog0)

\* C20: the last document id a pass reports is the id of the last document it
\* scanned, so that a pass resumed after it scans what this pass has not.
C20_LastDocIdIsLastScanned ==
    (PassDone /\ scanned # <<>>) => lastDocId = scanned[Len(scanned)]

----------------------------------------------------------------------------
(* The cursor of the internet-archive adapter *)

\* a cursor that lacks a numeric queryIndex, sortIndex or pageOffset
Malformed(st) ==
    \E name \in {"queryIndex", "sortIndex", "pageOffset"} :
        cursorField(st, name).kind # "number"

\* the request the initial cursor makes the adapter issue for its query qq
initialRequest(qq) ==
    [kind |-> "search", q |-> qq, query |-> {SEARCH_QUERIES[qq + 1]},
     sort |-> {SORT_OPTIONS[qq + 1]}, page |-> Number(1)]

\* the adapter was given db and found no usable cursor document
NoUsableCursor(loads) ==
    /\ fn = "fetchInternetArchive" /\ hasDb
    /\ \/ stateLoad \in loads
       \/ stateLoad = "read" /\ Malformed(state)

\* the properties of a run with the initial cursor
RunsInitialRotation ==
    /\ \A i \in 1..Len(requests) :
          requests[i].kind = "search" => requests[i] = initialRequest(requests[i].q)
    /\ pc = "returned" =>
          /\ \A qq \in 0..(queriesToRun - 1) :
                \E i \in 1..Len(requests) : requests[i] = initialRequest(qq)
          /\ ret.sourceName = IA_SOURCE
    /\ \A i \in 1..Len(stateWrites) : stateWrites[i] = newState(InitialCursor)

\* C18: when the cursor document is missing, cannot be read, or lacks a numeric
\* queryIndex, sortIndex or pageOffset, the adapter runs with the initial cursor:
\* it issues the three searches of the initial rotation, returns its result, and
\* the cursor it saves is the well-formed successor of the initial cursor.
C18_CursorFallback ==
    NoUsableCursor({"missing", "threw"}) => RunsInitialRotation

----------------------------------------------------------------------------
(* sources/jamendo.ts: fetchJamendo *)

JAMENDO_PAGE_SIZE == 200    \* PAGE_SIZE of jamendo.ts
MAX_PAGES == 3

ARTIST_PREFIX == SOURCE \o <<"-", "a", "r", "t", "i", "s", "t", "-">>
ALBUM_PREFIX == SOURCE \o <<"-", "a", "l", "b", "u", "m", "-">>

MaxPageItems == 3      \* longest listing of a page that is not full

\* the items of a listing: a track, a track without audio, and null
jamendoTrack(n) ==
    [id |-> decimal(n), name |-> <<"T">> \o decimal(n), duration |-> 60,
     artist_id |-> <<"7">>, artist_name |-> <<"A">>,
     audio |-> HTTP \o <<":">> \o SOURCE \o <<"/", "a">> \o decimal(n),
     image |-> HTTP \o <<":">> \o SOURCE \o <<"/", "i">> \o decimal(n)]

silentTrack(n) == [id |-> decimal(n), name |-> <<"T">> \o decimal(n), duration |-> 60,
                   artist_id |-> <<"7">>, artist_name |-> <<"A">>]

itemOfKind(kind, n) ==
    CASE kind = "track" -> jamendoTrack(n)
      [] kind = "silent" -> silentTrack(n)
      [] OTHER -> Null

\* line 72: the item has an audio url; reading t.audio of null throws
playable(t) ==
    t # Null /\ (~Falsy(field(t, "audio")) \/ ~Falsy(field(t, "audiodownload")))

\* line 74: t.musicinfo?.tags?.genres?.[0] || 'Other'
genreOf(t) ==
    IF "musicinfo" \in DOMAIN t /\ Len(t.musicinfo.tags.genres) > 0
          /\ ~Falsy(t.musicinfo.tags.genres[1])
    THEN t.musicinfo.tags.genres[1]
    ELSE OTHER_GENRE

\* lines 76-90: the record made of an item
trackOfJamendo(t) ==
    sanitizeTrack(
        [id |-> SOURCE \o <<"-">> \o t.id,
         title |-> t.name,
         artist |-> t.artist_name,
         artistId |-> ARTIST_PREFIX \o t.artist_id,
         album |-> orElse(t, "album_name", SINGLES),
         albumId |-> IF ~Falsy(field(t, "album_id")) THEN ALBUM_PREFIX \o t.album_id
                     ELSE <<>>,
         duration |-> t.duration,
         artwork |-> orElse(t, "album_image", field(t, "image")),
         audioUrl |-> orElse(t, "audio", field(t, "audiodownload")),
         genre |-> genreOf(t),
         license |-> orElse(t, "license_ccurl", CREATIVE_COMMONS)])

\* lines 71-72: the index of the first item whose processing throws, one past
\* the listing if none does
firstFailure(listing) ==
    IF \E i \in 1..Len(listing) : listing[i] = Null
    THEN CHOOSE i \in 1..Len(listing) :
             listing[i] = Null /\ \A j \in 1..(i - 1) : listing[j] # Null
    ELSE Len(listing) + 1

\* lines 71-91: the records pushed for a listing, up to the item that throws
pageTracks(listing) ==
    LET sel == SelectSeq(SubSeq(listing, 1, firstFailure(listing) - 1), playable)
    IN [k \in 1..Len(sel) |-> trackOfJamendo(sel[k])]

\* line 53-57: the request of a page
pageRequest(pg) == [kind |-> "page", page |-> pg, offset |-> pg * JAMENDO_PAGE_SIZE]

\* the bodies a page request is answered with
ItemKinds == {"track", "silent", "null"}

ShortListings(pg) ==
    UNION {{[k \in 1..m |-> itemOfKind(kinds[k], pg * JAMENDO_PAGE_SIZE + k)] :
                kinds \in [1..m -> ItemKinds]} : m \in 0..MaxPageItems}

fullListing(pg) ==
    [k \in 1..JAMENDO_PAGE_SIZE |-> jamendoTrack(pg * JAMENDO_PAGE_SIZE + k)]

\* a listing of more items than the limit of the request asked for
longListing(pg) ==
    [k \in 1..(JAMENDO_PAGE_SIZE + 1) |-> jamendoTrack(pg * JAMENDO_PAGE_SIZE + k)]

JamendoBodies(pg) ==
    {[headers |-> [code |-> 0], results |-> l] :
        l \in ShortListings(pg) \cup {fullListing(pg), longListing(pg)}}
        \cup {[headers |-> [code |-> 5], results |-> <<>>],
              [results |-> <<>>],
              [headers |-> [code |-> 0]]}

jamendoOther == <<dryRun, results, allTracks, allStats, newTracks, exitCode, ioError,
                  dedupVars, uploadVars, writeVars, migVars, hasDb, stateDoc, stateLoad,
                  state, queryI, itemsToProcess, item, seen, stateWrites, clientId,
                  pastRequests, runsLeft>>

\* lines 100-101: the adapter returns
jamendoReturn(errs, ts) ==
    /\ pc' = "returned"
    /\ srcTracks' = ts
    /\ srcErrors' = errs
    /\ ret' = [sourceName |-> SOURCE, tracks |-> ts, errors |-> errs]
    /\ UNCHANGED <<pageI, requests>>

\* lines 51-57: the loop goes on to the next page, if there is one
jamendoNextPage(errs, ts) ==
    IF pageI + 1 < MAX_PAGES
    THEN /\ pc' = "jmFetch"
         /\ pageI' = pageI + 1
         /\ requests' = Append(requests, pageRequest(pageI + 1))
         /\ srcTracks' = ts
         /\ srcErrors' = errs
         /\ ret' = ret
    ELSE jamendoReturn(errs, ts)

\* lines 38-57: the call runs to its first await, or returns for want of a
\* client id
JmCall ==
    /\ fn = "fetchJamendo" /\ pc = "jmCall"
    /\ IF ~clientId
       THEN /\ pc' = "returned"
            /\ ret' = [sourceName |-> SOURCE, tracks |-> <<>>,
                       errors |-> <<<<"JAMENDO_CLIENT_ID not set">>>>]
            /\ UNCHANGED <<pageI, requests, srcTracks, srcErrors>>
       ELSE /\ pc' = "jmFetch"
            /\ pageI' = 0
            /\ requests' = Append(requests, pageRequest(0))
            /\ UNCHANGED <<ret, srcTracks, srcErrors>>
    /\ UNCHANGED <<fn, arg, jamendoOther, listings>>

\* lines 57-62 and 95-97: the page request answered, or threw
JmFetch ==
    /\ fn = "fetchJamendo" /\ pc = "jmFetch"
    /\ \E o \in {"ok", "http-error", "network-error"} :
         CASE o = "ok" ->
                /\ pc' = "jmJson"
                /\ UNCHANGED <<pageI, requests, srcTracks, srcErrors, ret>>
           [] o = "http-error" ->
                jamendoReturn(Append(srcErrors, <<"HTTP", pageI + 1>>), srcTracks)
           [] OTHER ->
                jamendoNextPage(Append(srcErrors, <<"Page error", pageI + 1>>), srcTracks)
    /\ UNCHANGED <<fn, arg, jamendoOther, listings>>

\* lines 64-97: the body of the page was read, or could not be
JmJson ==
    /\ fn = "fetchJamendo" /\ pc = "jmJson"
    /\ LET failed == Append(srcErrors, <<"Page error", pageI + 1>>)
       IN \/ /\ jamendoNextPage(failed, srcTracks)
             /\ UNCHANGED listings
          \/ \E data \in JamendoBodies(pageI) :
               IF "headers" \notin DOMAIN data
               THEN /\ jamendoNextPage(failed, srcTracks)
                    /\ UNCHANGED listings
               ELSE IF data.headers.code # 0
               THEN /\ jamendoReturn(Append(srcErrors, <<"API error code", pageI + 1>>),
                                     srcTracks)
                    /\ UNCHANGED listings
               ELSE IF "results" \notin DOMAIN data
               THEN /\ jamendoNextPage(failed, srcTracks)
                    /\ UNCHANGED listings
               ELSE /\ listings' = Append(listings, [page |-> pageI, items |-> data.results])
                    /\ LET ts == srcTracks \o pageTracks(data.results)
                       IN IF firstFailure(data.results) <= Len(data.results)
                          THEN jamendoNextPage(failed, ts)
                          ELSE IF Len(data.results) < JAMENDO_PAGE_SIZE
                          THEN jamendoReturn(srcErrors, ts)
                          ELSE /\ pc' = "jmSleep"
                               /\ srcTracks' = ts
                               /\ UNCHANGED <<pageI, requests, srcErrors, ret>>
    /\ UNCHANGED <<fn, arg, jamendoOther>>

\* line 94: sleep(1000) is over
JmSleep ==
    /\ fn = "fetchJamendo" /\ pc = "jmSleep"
    /\ jamendoNextPage(srcErrors, srcTracks)
    /\ UNCHANGED <<fn, arg, jamendoOther, listings>>

JamendoNext ==
    \/ JmCall
    \/ JmFetch
    \/ JmJson
    \/ JmSleep

JamendoInit ==
    /\ fn = "fetchJamendo" /\ arg = <<>> /\ ret = <<>>
    /\ pc = "jmCall"
    /\ dryRun = FALSE
    /\ results = <<>>
    /\ allTracks = <<>> /\ allStats = <<>>
    /\ ids = <<>> /\ dedupI = 0 /\ existing = {} /\ lookups = <<>>
    /\ newTracks = <<>>
    /\ upI = 0 /\ tasks = EmptyMap /\ uploaded = 0 /\ kept = 0
    /\ mediaResults = EmptyMap
    /\ bucket = EmptyMap
    /\ wI = 0 /\ commits = <<>>
    /\ catalog = EmptyMap
    /\ catalog0 = EmptyMap
    /\ exitCode = {}
    /\ ioError = "none"
    /\ MigIdle
    /\ hasDb = TRUE /\ stateDoc = {} /\ stateLoad = "none" /\ state = InitialCursor
    /\ queryI = 0 /\ itemsToProcess = <<>> /\ item = 0 /\ pageI = 0
    /\ srcTracks = <<>> /\ srcErrors = <<>> /\ seen = {} /\ requests = <<>>
    /\ stateWrites = <<>>
    /\ clientId \in BOOLEAN /\ listings = <<>>
    /\ pastRequests = {} /\ runsLeft = 0

SpecJamendo == JamendoInit /\ [][JamendoNext]_vars

SpecAdapters == (ArchiveInit \/ JamendoInit) /\ [][ArchiveNext \/ JamendoNext]_vars

\* the number of items in the listings received so far
RECURSIVE itemsListed(_)
itemsListed(ls) == IF ls = <<>> THEN 0 ELSE Len(Head(ls).items) + itemsListed(Tail(ls))

\* the number of listed items whose processing throws
RECURSIVE itemsFailing(_)
itemsFailing(ls) ==
    IF ls = <<>> THEN 0
    ELSE Cardinality({i \in 1..Len(Head(ls).items) : Head(ls).items[i] = Null})
             + itemsFailing(Tail(ls))

\* the adapter is between two listings, or has returned
BetweenListings == pc \notin {"iaSleep", "iaMeta", "iaMetaJson", "jmJson"}

\* every item of the listings received was processed: the archive adapter has
\* requested its metadata, fetchJamendo has pushed its record if it has audio
EveryItemProcessed ==
    /\ fn = "fetchInternetArchive" => metadataRequests = itemsListed(listings)
    /\ fn = "fetchJamendo" =>
          \A l \in 1..Len(listings) : \A i \in 1..Len(listings[l].items) :
              playable(listings[l].items[i]) =>
                  \E k \in 1..Len(srcTracks) :
                      srcTracks[k] = trackOfJamendo(listings[l].items[i])

\* C17: an adapter ends by returning a SourceResult of its tracks and errors
\* whatever its requests were answered with; every item of a listing is processed
\* whether or not an earlier item failed, the records pushed before a failure are
\* kept, and fetchJamendo's errors hold one entry for each page that gave no
\* listing and one for each item that failed.
C17_AdapterNeverFails ==
    (fn \in {"fetchJamendo", "fetchInternetArchive"} /\ BetweenListings) =>
        /\ EveryItemProcessed
        /\ pc = "returned" =>
              /\ ret.sourceName = (IF fn = "fetchJamendo" THEN SOURCE ELSE IA_SOURCE)
              /\ fn = "fetchInternetArchive" =>
                    ret.tracks = srcTracks /\ ret.errors = srcErrors
              /\ (fn = "fetchJamendo" /\ clientId) =>
                    /\ ret.tracks = srcTracks /\ ret.errors = srcErrors
                    /\ Len(srcErrors) =
                          (Len(requests) - Len(listings)) + itemsFailing(listings)

----------------------------------------------------------------------------
(* An import run over the settled promises of several source adapters *)

MaxSources == 2        \* most adapters in the list given to Promise.allSettled
MaxListed == 2         \* longest listing of a source next to a rejected one

\* the settled promises of a list of adapters of which one rejected
SourceLists ==
    LET outcomes == {o \in SourceOutcomes :
                        o.status = "fulfilled" => Len(o.value.tracks) <= MaxListed}
    IN {rs \in UNION {[1..n -> outcomes] : n \in 1..MaxSources} :
           Cardinality({i \in 1..Len(rs) : rs[i].status = "rejected"}) = 1}

SourcesInit ==
    /\ PureIdle
    /\ pc = "fetch"
    /\ dryRun \in BOOLEAN
    /\ results \in SourceLists
    /\ allTracks = <<>> /\ allStats = <<>>
    /\ ids = <<>> /\ dedupI = 0 /\ existing = {} /\ lookups = <<>>
    /\ newTracks = <<>>
    /\ upI = 0 /\ tasks = EmptyMap /\ uploaded = 0 /\ kept = 0
    /\ mediaResults = EmptyMap
    /\ bucket = EmptyMap
    /\ wI = 0 /\ commits = <<>>
    /\ catalog \in Catalogs
    /\ catalog0 = catalog
    /\ exitCode = {}
    /\ ioError = "none"
    /\ MigIdle
    /\ AdapterIdle

SpecSources == SourcesInit /\ [][ImportNext]_vars

\* the sources whose promise rejected
RejectedSources == {i \in 1..Len(results) : results[i].status = "rejected"}

\* the records of the sources that fulfilled, in the order of the sources
RECURSIVE harvestOf(_)
harvestOf(rs) ==
    IF rs = <<>> THEN <<>>
    ELSE (IF Head(rs).status = "fulfilled" THEN Head(rs).value.tracks ELSE <<>>)
             \o harvestOf(Tail(rs))

\* C16: when the promise of one source adapter rejects, the run goes on with
\* the sources that fulfilled: their valid records are collected, the new ones
\* among them are found by the dedup check, handed to media transfer and written
\* by a live run that ends; the run fails only when a store call rejects; and
\* the summary has one entry for each source, with 0 fetched and 1 error for the
\* source that rejected.
C16_RejectionIsolated ==
    (fn = "none" /\ results # <<>> /\ RejectedSources # {}) =>
        /\ pc # "fetch" =>
             /\ allTracks = SelectSeq(harvestOf(results), ValidRecord)
             /\ Len(allStats) = Len(results)
             /\ \A i \in 1..Len(results) :
                   IF i \in RejectedSources
                   THEN /\ allStats[i].errors = 1 /\ allStats[i].fetched = 0
                        /\ allStats[i].newTracks = 0
                        /\ allStats[i].skippedDuplicates = 0
                   ELSE /\ allStats[i].fetched = Len(results[i].value.tracks)
                        /\ allStats[i].errors = Len(results[i].value.errors)
        /\ AfterDedup =>
             idsOf(newTracks) =
                 idsOf(SelectSeq(SelectSeq(harvestOf(results), ValidRecord),
                                 LAMBDA t : t.id \notin DOMAIN catalog0))
        /\ (pc = "done" /\ ~dryRun) =>
             /\ DOMAIN mediaResults = 1..Len(newTracks)
             /\ \A i \in 1..Len(newTracks) : newTracks[i].id \in DOMAIN catalog
        /\ exitCode = {1} => ioError # "none"

\* the first of two sources rejected and the second listed two new records: the
\* run has ended with both transferred and written
C16_Witness ==
    /\ pc = "done" /\ ~dryRun /\ exitCode = {0}
    /\ Len(results) = 2
    /\ results[1].status = "rejected" /\ results[2].status = "fulfilled"
    /\ idsOf(newTracks) = <<jamendoId(1), jamendoId(2)>>
    /\ {jamendoId(1), jamendoId(2)} \subseteq DOMAIN catalog \ DOMAIN catalog0
    /\ allStats[1].source = UNKNOWN /\ allStats[1].errors = 1
    /\ allStats[2].newTracks = 2

----------------------------------------------------------------------------
(* Repeated runs of fetchInternetArchive over the cursor document *)

MaxRuns == 21          \* runs in a row when every load and save succeeds
MaxFairRuns == 5       \* runs in a row after a run whose load of the cursor threw

\* lines 98-104: what tells one search request from another
searchKey(r) == [query |-> r.query, sort |-> r.sort, page |-> r.page]

searchesOf(reqs) ==
    {searchKey(reqs[i]) : i \in {j \in 1..Len(reqs) : reqs[j].kind = "search"}}

\* the adapter is called again, by the next import run: its locals are new, the
\* cursor document is what the run before left
IaAgain ==
    /\ fn = "fetchInternetArchive" /\ pc = "returned" /\ hasDb
    \* a run whose load threw started the rotation, and the count of the runs
    \* in a row, over
    /\ runsLeft > 0 \/ stateLoad = "threw"
    /\ runsLeft' = IF stateLoad = "threw" THEN MaxFairRuns - 1 ELSE runsLeft - 1
    /\ pastRequests' = pastRequests \cup searchesOf(requests)
    /\ pc' = "iaCall"
    /\ ret' = <<>>
    /\ stateLoad' = "none" /\ state' = InitialCursor
    /\ queryI' = 0 /\ itemsToProcess' = <<>> /\ item' = 0
    /\ srcTracks' = <<>> /\ srcErrors' = <<>> /\ seen' = {} /\ requests' = <<>>
    /\ stateWrites' = <<>> /\ listings' = <<>>
    /\ UNCHANGED <<fn, arg, dryRun, results, allTracks, allStats, newTracks, exitCode,
                   ioError, dedupVars, uploadVars, writeVars, migVars, hasDb, stateDoc,
                   pageI, clientId>>

\* a first run that finds no cursor document, or the initial cursor
RerunsInit(runs) ==
    /\ fn = "fetchInternetArchive" /\ arg = <<>> /\ ret = <<>>
    /\ pc = "iaCall"
    /\ dryRun = FALSE
    /\ results = <<>>
    /\ allTracks = <<>> /\ allStats = <<>>
    /\ ids = <<>> /\ dedupI = 0 /\ existing = {} /\ lookups = <<>>
    /\ newTracks = <<>>
    /\ upI = 0 /\ tasks = EmptyMap /\ uploaded = 0 /\ kept = 0
    /\ mediaResults = EmptyMap
    /\ bucket = EmptyMap
    /\ wI = 0 /\ commits = <<>>
    /\ catalog = EmptyMap
    /\ catalog0 = EmptyMap
    /\ exitCode = {}
    /\ ioError = "none"
    /\ MigIdle
    /\ hasDb = TRUE
    /\ stateDoc \in {{}, {InitialCursor}}
    /\ stateLoad = "none" /\ state = InitialCursor
    /\ queryI = 0 /\ itemsToProcess = <<>> /\ item = 0 /\ pageI = 0
    /\ srcTracks = <<>> /\ srcErrors = <<>> /\ seen = {} /\ requests = <<>>
    /\ stateWrites = <<>>
    /\ clientId = FALSE /\ listings = <<>>
    /\ pastRequests = {} /\ runsLeft = runs - 1

\* the runs in which every load and every save of the cursor succeeds
RotationNext ==
    \/ IaCall
    \/ IaLoad
    \/ IaSearch
    \/ IaSearchJson
    \/ IaSleep
    \/ IaMeta
    \/ IaMetaJson
    \/ IaSave
    \/ IaAgain

SpecRotation == RerunsInit(MaxRuns) /\ [][RotationNext]_vars

\* the runs in which every save succeeds and a load may throw; every await
\* settles and the adapter is called again while the scenario has runs left
RerunsNext == RotationNext \/ IaLoadFail

SpecReruns ==
    RerunsInit(MaxFairRuns) /\ [][RerunsNext]_vars /\ WF_vars(RerunsNext)

\* the searches issued so far, by the runs before and by this one
issued == pastRequests \cup searchesOf(requests)

AllQueriesAndSortsIssued ==
    /\ \A i \in 1..Len(SEARCH_QUERIES) : \E k \in issued : k.query = {SEARCH_QUERIES[i]}
    /\ \A i \in 1..Len(SORT_OPTIONS) : \E k \in issued : k.sort = {SORT_OPTIONS[i]}

\* the indices of a cursor are indices of SEARCH_QUERIES and of SORT_OPTIONS
InRange(st) ==
    /\ st.queryIndex \in {Number(n) : n \in 0..(Len(SEARCH_QUERIES) - 1)}
    /\ st.sortIndex \in {Number(n) : n \in 0..(Len(SORT_OPTIONS) - 1)}

SavedInRange ==
    /\ \A st \in stateDoc : InRange(st)
    /\ \A i \in 1..Len(stateWrites) : InRange(stateWrites[i])

C22_NoRepeatedListing ==
    \A k \in searchesOf(requests) : k \notin pastRequests

\* the pairs of a search query and a sort option issued so far, by their indices
pairsIssued ==
    {<<i, j>> \in (1..Len(SEARCH_QUERIES)) \X (1..Len(SORT_OPTIONS)) :
        \E k \in issued : k.query = {SEARCH_QUERIES[i]} /\ k.sort = {SORT_OPTIONS[j]}}

\* a run has saved a cursor with the indices of the initial cursor: the runs
\* after it issue the pairs of the runs before it
RotationComplete ==
    /\ pc = "returned" /\ stateWrites # <<>>
    /\ \A st \in stateDoc : st.queryIndex = Number(0) /\ st.sortIndex = Number(0)

\* C29: when every load and every save of the cursor succeeds, the runs issue
\* every pair of a search query and a sort option: once the rotation of the two
\* indices is complete each of the 10 x 4 pairs has been issued by some run.
C29_EveryPairIssued ==
    RotationComplete =>
        pairsIssued = (1..Len(SEARCH_QUERIES)) \X (1..Len(SORT_OPTIONS))

----------------------------------------------------------------------------
(* storage.ts: a download whose server stalls *)

\* the steps of a task that do not wait for the remote server: the abort timer
\* firing on the fetch it was armed for, and the object store answering file.save
localSteps(t) ==
    CASE t.pc \in {"audioFetch", "artFetch"} /\ t.timer = "armed" ->
           {AfterFetch(noted(t, "timeout"),
                       IF t.pc = "audioFetch" THEN "audio" ELSE "art", "timeout")}
      [] t.pc \in {"audioSave", "artSave"} -> TaskSteps(t)
      [] OTHER -> {}

\* a step of the call that the timer or the object store brings about
LocalStep(k) ==
    /\ pc = "mediaCall"
    /\ k \in InFlight
    /\ \E s \in localSteps(tasks[k]) :
        /\ tasks' = [tasks EXCEPT ![k] = s.task]
        /\ bucket' = Saved(bucket, s.put)
        /\ IF s.task.pc = "returned"
           THEN /\ ret' = s.task.result
                /\ pc' = "returned"
           ELSE UNCHANGED <<ret, pc>>
    /\ UNCHANGED <<migVars, adapterVars>>
    /\ UNCHANGED <<fn, arg, dryRun, results, allTracks, allStats, newTracks,
                   exitCode, ioError, dedupVars, upI, uploaded, kept, mediaResults,
                   writeVars>>

\* one call of uploadTrackMedia: the remote server answers or stalls as it
\* likes; an armed timer fires and the object store answers in the end
SpecStall ==
    /\ MediaInit
    /\ [][\E k \in DOMAIN tasks : MediaStep(k)]_vars
    /\ WF_vars(\E k \in DOMAIN tasks : LocalStep(k))

\* C23: every call of uploadTrackMedia returns in the end, with a result or
\* with null, wherever the remote server stalls: the abort timer of a download
\* is armed while its headers and while its body are awaited.
C23_DownloadReturns ==
    /\ [](\A k \in DOMAIN tasks :
             tasks[k].pc \in {"audioFetch", "audioBody", "artFetch", "artBody"}
                 => tasks[k].timer = "armed")
    /\ <>(pc = "returned")

-----------------------------------------------------------------------------
(* main: the order of the phases of an import run *)

\* some uploadTrackMedia call has started
TransferStarted == DOMAIN tasks # {} \/ DOMAIN mediaResults # {} \/ bucket # EmptyMap

\* batchWriteTracks has been called
WriterInvoked == pc = "commit" \/ commits # <<>>

\* C24: in an import run no media transfer starts before the dedup check of
\* the whole candidate pool has completed, and no batch commit starts while a
\* media transfer is in flight: every transfer, successful or failed, has
\* returned before the batch writer is invoked.
C24_PhasesOrdered ==
    /\ TransferStarted =>
         /\ pc \notin {"fetch", "dedup"}
         /\ dedupI >= Len(ids)
         /\ flatten(lookups) = ids
    /\ WriterInvoked =>
         /\ InFlight = {}
         /\ DOMAIN mediaResults = 1..Len(newTracks)

\* two chunks of transfers, one of them with a failed transfer, were joined
\* and the writer has committed
C24_Witness ==
    /\ commits # <<>>
    /\ Len(newTracks) > UPLOAD_CONCURRENCY
    /\ \E k \in DOMAIN mediaResults : mediaResults[k] = Null
    /\ \E k \in DOMAIN mediaResults : mediaResults[k] # Null
-----------------------------------------------------------------------------
(* The adapters: how much one run requests and emits *)

requestsOfKind(kind) == {i \in 1..Len(requests) : requests[i].kind = kind}

\* a request was issued after the listing or the error of page pg
RequestedAfter(pg) == \E i \in requestsOfKind("page") : requests[i].page > pg

\* C25: whatever the external API returns, fetchInternetArchive issues at
\* most 3 search requests and at most 50 metadata requests per search, 150 per
\* run, and fetchJamendo requests at most 3 pages and emits at most 600
\* tracks, with no request after a page shorter than the page size or a page
\* answered with an HTTP or API error.
C25_RunBounded ==
    /\ fn = "fetchInternetArchive" =>
          /\ Cardinality(requestsOfKind("search")) <= queriesToRun
          /\ \A i \in 1..Len(listings) : Len(listings[i].items) <= MAX_ITEMS_PER_QUERY
          /\ metadataRequests <= MAX_ITEMS_PER_QUERY * Cardinality(requestsOfKind("search"))
          /\ metadataRequests <= 150
    /\ fn = "fetchJamendo" =>
          /\ Cardinality(requestsOfKind("page")) <= MAX_PAGES
          /\ Len(srcTracks) <= MAX_PAGES * JAMENDO_PAGE_SIZE
          /\ \A i \in 1..Len(listings) :
                Len(listings[i].items) < JAMENDO_PAGE_SIZE => ~RequestedAfter(listings[i].page)
          /\ \A i \in 1..Len(srcErrors) :
                srcErrors[i][1] \in {"HTTP", "API error code"} =>
                    ~RequestedAfter(srcErrors[i][2] - 1)
-----------------------------------------------------------------------------
(* migrate: a live pass with no LIMIT whose reads of the collection succeed *)

LivePassInit == MigrateInit /\ ~dryRun /\ limitCount = Infinity

LivePassNext ==
    \/ MigStart
    \/ MigResume
    \/ MigQuery
    \/ \E k \in DOMAIN tasks : MigTaskStep(k)
    \/ \E k \in DOMAIN tasks : MigUpdate(k)
    \/ \E k \in DOMAIN tasks : MigUpdateFail(k)
    \/ MigChunkDone

\* storage.ts, lines 12-16 and 45-55: an await that settles whatever the media
\* server does: a fetch under the armed abort timer, a save to the bucket
Settles(t) ==
    \/ t.pc \in {"audioSave", "artSave"}
    \/ t.pc \in {"audioFetch", "artFetch"} /\ t.timer = "armed"

MigSettling == \E k \in InFlight : Settles(tasks[k]) /\ MigTaskStep(k)

\* the reads and updates of the document store are answered (no pass waits for
\* ever at query.get(), line 229), the steps of the script itself are taken,
\* and awaits that settle do settle; the media server is free never to send
\* what it is waited for
SpecLivePass ==
    /\ LivePassInit /\ [][LivePassNext]_vars
    /\ WF_vars(MigStart \/ MigResume \/ MigChunkDone)
    /\ []<>(pc # "migQuery")
    /\ WF_vars(\E k \in DOMAIN tasks : MigUpdate(k) \/ MigUpdateFail(k))
    /\ WF_vars(MigSettling)

\* C26: a live migration pass with no LIMIT over a finite collection whose
\* page queries succeed terminates, and it has then scanned every document
\* after the resume point exactly once, in id order, whatever items fail
\* their media transfer or their document update.
C26_PassTerminates ==
    /\ [](PassDone => scanned = remaining)
    /\ <>PassDone
-----------------------------------------------------------------------------
(* The documents an import run writes and a migration pass updates *)

\* the URLs of the system's own object store for the audio of a track
ownAudioUrls(id) == {downloadUrl(audioPath(id), token) : token \in Tokens}

\* the documents the run has written or updated
writtenIds == {id \in DOMAIN catalog : id \notin DOMAIN catalog0 \/ catalog[id] # catalog0[id]}

\* the audioUrl the record of the document had before its transfer: the one of
\* the document the pass read, or of a record of that id the sources returned
priorAudioUrls(id) ==
    IF id \in DOMAIN catalog0 THEN {catalog0[id].audioUrl}
    ELSE {allTracks[i].audioUrl : i \in {j \in 1..Len(allTracks) : allTracks[j].id = id}}

\* C27: every document written by the importer or updated by the migration
\* pass has originalAudioUrl if and only if its audioUrl was rewritten to a URL
\* of the own object store; as the catalog only changes by whole writes, the
\* two are set in one write; and originalAudioUrl is the audioUrl the record
\* had before the transfer.
C27_OriginalIffRewritten ==
    \A id \in writtenIds :
        /\ "originalAudioUrl" \in DOMAIN catalog[id] <=> catalog[id].audioUrl \in ownAudioUrls(id)
        /\ "originalAudioUrl" \in DOMAIN catalog[id] =>
              /\ catalog[id].originalAudioUrl \in priorAudioUrls(id)
              /\ catalog[id].originalAudioUrl # catalog[id].audioUrl

\* a finished import run wrote a document with a rewritten audioUrl and a
\* document whose transfer had failed
C27_Witness ==
    /\ fn = "none" /\ results # <<>> /\ pc = "done"
    /\ \E id \in writtenIds : catalog[id].audioUrl \in ownAudioUrls(id)
    /\ \E id \in writtenIds : "originalAudioUrl" \notin DOMAIN catalog[id]
-----------------------------------------------------------------------------
(* main: the ids of the new tracks of a run *)

\* the tracks of the run whose uploadTrackMedia call has started
transfersStarted == DOMAIN mediaResults \cup InFlight

\* C28: within one import run the list of new tracks holds each track id at
\* most once, whatever the sources return, so that no two transfers of the run
\* write to the same object-store path and no document id is set twice.
C28_NewIdsUnique ==
    (fn = "none" /\ results # <<>>) =>
        /\ \A i, j \in 1..Len(newTracks) : i # j => newTracks[i].id # newTracks[j].id
        /\ \A i, j \in transfersStarted :
              i # j => audioPath(newTracks[i].id) # audioPath(newTracks[j].id)
        /\ \A c \in 1..Len(commits) :
              Cardinality({newTracks[i].id : i \in 1..commits[c].written}) = commits[c].written
-----------------------------------------------------------------------------
(* main: the final summary *)

\* the records a settled source returned
returnedBy(r) == IF r.status = "fulfilled" THEN r.value.tracks ELSE <<>>

RECURSIVE sumOfNew(_)
sumOfNew(entries) ==
    IF entries = <<>> THEN 0 ELSE Head(entries).newTracks + sumOfNew(Tail(entries))

\* the documents the run has added to the catalog
writtenByRun == DOMAIN catalog \ DOMAIN catalog0

\* C30: in the final summary of an import run, every source entry has
\* newTracks + skippedDuplicates equal to the number of that source's records
\* that passed validation and fetched equal to the number of records the
\* source returned, and the sum of newTracks over the entries is the number of
\* tracks the run wrote.
C30_SummaryAddsUp ==
    (fn = "none" /\ results # <<>> /\ pc = "done") =>
        /\ Len(allStats) = Len(results)
        /\ \A i \in 1..Len(allStats) :
              /\ allStats[i].newTracks + allStats[i].skippedDuplicates
                    = Len(SelectSeq(returnedBy(results[i]), ValidRecord))
              /\ allStats[i].fetched = Len(returnedBy(results[i]))
        /\ sumOfNew(allStats) = Cardinality(writtenByRun)
====
